---- MODULE Spec2Model ----
(***************************************************************************)
(* A model of the resumable experiment runner of ida                       *)
(* (src/src/ida/experiments/experiment.py): run_experiments, its result    *)
(* ledger results_packed.csv, Experiment.run and the image stream it       *)
(* reads, and Experiment._spread_probs_to_all_classes.                     *)
(***************************************************************************)
EXTENDS Integers, Sequences, FiniteSets, TLC

(***************************************************************************)
(* Bounds of the model.                                                    *)
(***************************************************************************)
\* number of run_experiments calls made on the one ledger
MaxCalls == 2
\* length of the list of experiments handed to one call
MaxExperiments == 2

(***************************************************************************)
(* Experiment configurations.                                              *)
(***************************************************************************)
KEY_PARAMS ==
    {"classifier", "images_url", "num_train_obs", "num_calibration_obs",
     "interpreter", "type2", "type1", "model_agnostic_picker",
     "max_perturbed_area", "min_overlap_for_concept_merge"}

\* The dict built by Experiment.params.  Floats are written in percent.
BaseParams ==
    [classifier |-> "resnet18",
     class_names |-> <<"cat", "dog">>,
     images_url |-> "file:///images",
     num_train_obs |-> 1,
     num_calibration_obs |-> 1,
     interpreter |-> "GroundTruthObjectsInterpreter",
     concept_names |-> <<"ear", "tail">>,
     type2 |-> "SaliencyType2Explainer(quantile_level=0.5)",
     type1 |-> "TreeType1Explainer",
     model_agnostic_picker |-> "passthrough",
     num_test_obs |-> 1,
     max_perturbed_area |-> 60,
     min_overlap_for_concept_merge |-> 40]

\* Two repetitions, one calibration image and one training image each.
ExperimentA == [repetitions |-> 2, params |-> BaseParams]

\* ExperimentA with other values outside KEY_PARAMS only.
ExperimentA2 ==
    [repetitions |-> 3,
     params |-> [BaseParams EXCEPT !.num_test_obs = 2,
                                   !.class_names = <<"dog", "cat">>,
                                   !.concept_names = <<"tail", "ear">>]]

\* Differs from ExperimentA in key parameters; no calibration images.
ExperimentB ==
    [repetitions |-> 1,
     params |-> [BaseParams EXCEPT !.classifier = "alexnet",
                                   !.num_calibration_obs = 0,
                                   !.num_train_obs = 2]]

Experiments == {ExperimentA, ExperimentA2, ExperimentB}

RECURSIVE SeqsUpTo(_, _)
SeqsUpTo(S, n) ==
    IF n = 0 THEN {<<>>}
    ELSE LET shorter == SeqsUpTo(S, n - 1)
         IN shorter \cup {Append(s, x) : s \in shorter, x \in S}

\* The lists of experiments a caller may hand to run_experiments.
ExperimentLists == SeqsUpTo(Experiments, MaxExperiments) \ {<<>>}

(***************************************************************************)
(* Helpers of run_experiments.                                             *)
(***************************************************************************)
Max(a, b) == IF a >= b THEN a ELSE b

IsPrefix(s, t) == Len(s) <= Len(t) /\ SubSeq(t, 1, Len(s)) = s

\* collections.Counter: a missing key counts 0
CounterGet(counter, key) == IF key \in DOMAIN counter THEN counter[key] ELSE 0

CounterAdd(counter, key) ==
    IF key \in DOMAIN counter
    THEN [counter EXCEPT ![key] = @ + 1]
    ELSE counter @@ (key :> 1)

\* _freeze on a params dict: the frozenset of the (key, value) pairs whose key
\* is in KEY_PARAMS, here the dict restricted to those keys; a dict without
\* 'model_agnostic_picker' (older results) gets 'passthrough'.  The values
\* under the key parameters are strings and numbers, which _freeze returns
\* as they are.
_freezeAllParams(obj) ==
    IF "model_agnostic_picker" \in DOMAIN obj
    THEN obj
    ELSE obj @@ ("model_agnostic_picker" :> "passthrough")

_freeze(obj) ==
    LET filled == IF "model_agnostic_picker" \in DOMAIN obj
                  THEN obj
                  ELSE obj @@ ("model_agnostic_picker" :> "passthrough")
    IN [k \in (DOMAIN filled) \cap KEY_PARAMS |-> filled[k]]

\* line 310: assert exp_no_by_params[params] == e['exp_no']
AssertDisabled(recorded, exp_no) == TRUE

SameExpNo(recorded, exp_no) == recorded = exp_no

\* line 312: next_exp_no = max(e['exp_no'] + 1, next_exp_no)
NextExpNo(exp_no, next_exp_no) == Max(exp_no + 1, next_exp_no)

\* lines 299-314: the loop over the rows of the existing ledger.  ok is FALSE
\* when the assertion of line 310 fails.
LoadInit ==
    [ok |-> TRUE, done_counter |-> <<>>, exp_no_by_params |-> <<>>, next_exp_no |-> 1]

RECURSIVE LoadRows(_, _)
LoadRows(rows, st) ==
    IF rows = <<>> \/ ~st.ok THEN st
    ELSE LET e == Head(rows)
             params == _freeze(e.params)
         IN IF params \in DOMAIN st.exp_no_by_params
            THEN IF SameExpNo(st.exp_no_by_params[params], e.exp_no)
                 THEN LoadRows(Tail(rows),
                               [st EXCEPT !.done_counter = CounterAdd(@, params)])
                 ELSE [st EXCEPT !.ok = FALSE]
            ELSE LoadRows(Tail(rows),
                          [st EXCEPT !.next_exp_no = NextExpNo(e.exp_no, @),
                                     !.exp_no_by_params = @ @@ (params :> e.exp_no),
                                     !.done_counter = CounterAdd(@, params)])

\* line 337: if done_counter[params] >= e.repetitions: continue
IsDoneOffByOne(done, repetitions) == done > repetitions

IsDone(done, repetitions) == done >= repetitions

\* a faulty variant: the test images are not skipped
skip_countFromStart(e, resume_at) ==
    (resume_at - 1) * e.params.num_train_obs

\* line 153: skip_count of Experiment.run
skip_count(e, resume_at) ==
    e.params.num_test_obs + (resume_at - 1) * e.params.num_train_obs

\* line 329: open('a+') keeps what the file holds
OpenTruncating(rows) == <<>>

OpenForAppend(rows) == rows

\* line 358: packed_csv_file.flush() moves the buffered lines to the file
FlushOmitted(file, buf) == [file |-> file, buf |-> buf]

Flush(file, buf) ==
    [file |-> [header |-> file.header \/ buf.header, rows |-> file.rows \o buf.rows],
     buf |-> [header |-> FALSE, rows |-> <<>>]]

(***************************************************************************)
(* Experiment._spread_probs_to_all_classes.  numpy arrays are functions on *)
(* 0..n-1.  A class name is written as its rank among the names in string  *)
(* order, which is all that np.argsort reads of it.                        *)
(***************************************************************************)
\* number of classes of the classifier
MaxClasses == 4
\* rows of the matrix returned by predict_proba
MaxRows == 1
\* the probabilities, in units of 1/MaxProb
MaxProb == 2

Size(a) == Cardinality(DOMAIN a)

\* lines 129-131: all_class_ids
all_class_ids(num_classes) == [i \in 0..(num_classes - 1) |-> i]

\* np.argsort: the indices that put a in ascending order
argsort(a) ==
    CHOOSE s \in [DOMAIN a -> DOMAIN a] :
        /\ \A i, j \in DOMAIN a : i # j => s[i] # s[j]
        /\ \A i, j \in DOMAIN a : i < j => a[s[i]] <= a[s[j]]

\* the binary search of np.searchsorted (side='left') for one key
RECURSIVE BinarySearch(_, _, _, _, _)
BinarySearch(a, sorter, key_val, min_idx, max_idx) ==
    IF min_idx >= max_idx THEN min_idx
    ELSE LET mid_idx == min_idx + ((max_idx - min_idx) \div 2)
         IN IF a[sorter[mid_idx]] < key_val
            THEN BinarySearch(a, sorter, key_val, mid_idx + 1, max_idx)
            ELSE BinarySearch(a, sorter, key_val, min_idx, mid_idx)

\* np.searchsorted(a, v, sorter=sorter): the keys are searched in turn, and a
\* key larger than the one before it is searched from the place found for
\* that one onwards
RECURSIVE SearchKeys(_, _, _, _, _, _, _)
SearchKeys(a, sorter, v, j, min_idx, max_idx, ret) ==
    IF j \notin DOMAIN v THEN ret
    ELSE LET arr_len == Size(a)
             larger == j > 0 /\ v[j - 1] < v[j]
             lo == IF larger THEN min_idx ELSE 0
             hi == IF larger THEN arr_len
                   ELSE IF max_idx < arr_len THEN max_idx + 1 ELSE arr_len
             found == BinarySearch(a, sorter, v[j], lo, hi)
         IN SearchKeys(a, sorter, v, j + 1, found, found, ret @@ (j :> found))

searchsorted(a, v, sorter) == SearchKeys(a, sorter, v, 0, 0, Size(a), <<>>)

\* lines 200-213.  probs[r][j] is the probability of class classes_[j] in row
\* r; an assignment to a column that idx names twice keeps the last value.
_spread_probs_to_all_classes(class_names, probs, classes_) ==
    LET num_classes == Size(class_names)
        sorter == argsort(class_names)
        found == searchsorted(all_class_ids(num_classes), classes_, sorter)
    IN IF \E j \in DOMAIN found : found[j] \notin DOMAIN sorter
       THEN [state |-> "IndexError"]
       ELSE LET idx == [j \in DOMAIN classes_ |-> sorter[found[j]]]
                from(c) == {j \in DOMAIN classes_ : idx[j] = c}
                last(c) == CHOOSE j \in from(c) : \A k \in from(c) : k <= j
            IN [state |-> "returned",
                value |-> [r \in DOMAIN probs |->
                             [c \in 0..(num_classes - 1) |->
                                IF from(c) = {} THEN 0 ELSE probs[r][last(c)]]]]

\* the ascending array of the members of S, as sklearn keeps classes_
Ascending(S) ==
    CHOOSE f \in [0..(Cardinality(S) - 1) -> S] :
        \A i, j \in 0..(Cardinality(S) - 1) : i < j => f[i] < f[j]

\* the lists of num_classes different class names, in any order
ClassNameLists(num_classes) ==
    {f \in [0..(num_classes - 1) -> 1..num_classes] :
        \A i, j \in 0..(num_classes - 1) : i # j => f[i] # f[j]}

SpreadArgsOf(num_classes) ==
    UNION {
        {[class_names |-> names, classes_ |-> Ascending(S), probs |-> probs] :
            names \in ClassNameLists(num_classes),
            probs \in [0..(rows - 1) -> [0..(Cardinality(S) - 1) -> 1..MaxProb]]} :
        rows \in 1..MaxRows,
        S \in (SUBSET (0..(num_classes - 1))) \ {{}}}

(***************************************************************************)
(* State.                                                                  *)
(***************************************************************************)
VARIABLES
    \* persisted: the directory of the run and results_packed.csv in it
    exp_dir_exists, ledger,
    \* the process running run_experiments
    pc, continue_previous_run, experiments, idx,
    done_counter, exp_no_by_params, next_exp_no,
    exp_no, resume_at, rep_no, train_pos, buffer,
    \* history
    calls, outcome, ledger0, reached, assigned, executed, slices,
    \* one call of Experiment._spread_probs_to_all_classes
    spread_args, spread_result,
    \* one call of ida.ipa: its arguments, its position, the directory of
    \* memory_mapped_image_list, the ImageList yielded, the labels observed,
    \* what run_cv did, and how the call ended
    ipa_args, ipa_pc, tmp_dir, images, predicted_classes, cv, ipa_outcome,
    \* one call of ImageList.__getitem__
    getitem_self, getitem_idx, getitem_result,
    \* an InterpretPickTransformer and the calls made on it: the arguments,
    \* the call running, the results of its workers, the images interpreted
    \* by it, the fitted attributes, and the calls that ended
    pick_args, pick_call, slots, interpreted, fitted, pick_log,
    \* one call of _prepare_test_observations: its arguments, its position,
    \* the number of images read from the stream, and the four lists
    prep_args, prep_pc, prep_pos, test_obs,
    \* one call of GlobalPerturber.perturb: its arguments, the position of the
    \* generator, the number of samples taken from the sampler, and what the
    \* generator has yielded
    perturb_args, perturb_pc, sampler_pos, yielded,
    \* a top-level write loop: which of the two loops and the configured url, its
    \* position, the variable output_url, the destinations that exist, the write
    \* attempts made, the lines the operator entered, and how the loop ended
    write_args, write_pc, output_url, store, attempts, entered, write_outcome,
    \* a ToOIV4ObjectNamesTranslator and one run of result_iter: the arguments,
    \* the position of the generator, the batches read, pending_count, the None
    \* entries put, the results drained behind join, the two queues with the
    \* count of unfinished tasks of in_queue, the worker processes, and the
    \* results yielded
    tr_args, coord_pc, batch_no, pending_count, sentinels, drained, in_queue,
    unfinished_tasks, out_queue, processes, yielded_results

diskVars == <<exp_dir_exists, ledger>>
procVars == <<pc, continue_previous_run, experiments, idx, done_counter,
              exp_no_by_params, next_exp_no, exp_no, resume_at, rep_no,
              train_pos, buffer>>
histVars == <<calls, outcome, ledger0, reached, assigned, executed, slices>>
runnerVars == <<diskVars, procVars, histVars>>
spreadVars == <<spread_args, spread_result>>
ipaVars == <<ipa_args, ipa_pc, tmp_dir, images, predicted_classes, cv, ipa_outcome>>
getitemVars == <<getitem_self, getitem_idx, getitem_result>>
pickVars == <<pick_args, pick_call, slots, interpreted, fitted, pick_log>>
prepVars == <<prep_args, prep_pc, prep_pos, test_obs>>
perturbVars == <<perturb_args, perturb_pc, sampler_pos, yielded>>
writeVars == <<write_args, write_pc, output_url, store, attempts, entered,
               write_outcome>>
translatorVars == <<tr_args, coord_pc, batch_no, pending_count, sentinels,
                    drained, in_queue, unfinished_tasks, out_queue,
                    processes, yielded_results>>
\* what run_experiments leaves alone
otherVars == <<spreadVars, ipaVars, getitemVars, pickVars, prepVars,
               perturbVars, writeVars, translatorVars>>
vars == <<runnerVars, spreadVars, ipaVars, getitemVars, pickVars, prepVars,
          perturbVars, writeVars, translatorVars>>

EmptyBuffer == [header |-> FALSE, rows |-> <<>>]

\* the process holds nothing between two calls
ProcReset ==
    /\ pc' = "idle"
    /\ experiments' = <<>>
    /\ idx' = 0
    /\ done_counter' = <<>>
    /\ exp_no_by_params' = <<>>
    /\ next_exp_no' = 1
    /\ exp_no' = 0
    /\ resume_at' = 0
    /\ rep_no' = 0
    /\ train_pos' = 0
    /\ buffer' = EmptyBuffer

InitProcess ==
    /\ pc = "idle"
    /\ continue_previous_run = FALSE
    /\ experiments = <<>>
    /\ idx = 0
    /\ done_counter = <<>>
    /\ exp_no_by_params = <<>>
    /\ next_exp_no = 1
    /\ exp_no = 0
    /\ resume_at = 0
    /\ rep_no = 0
    /\ train_pos = 0
    /\ buffer = EmptyBuffer
    /\ outcome = "none"
    /\ ledger0 = <<>>
    /\ reached = <<>>
    /\ assigned = <<>>
    /\ executed = <<>>
    /\ slices = {}

\* no call of _spread_probs_to_all_classes
NoSpread ==
    /\ spread_args = [class_names |-> <<>>, classes_ |-> <<>>, probs |-> <<>>]
    /\ spread_result = [state |-> "none"]

\* no call of ipa
NoIpa ==
    /\ ipa_args = [image_iter |-> <<>>, num_classes |-> 0,
                   min_k_folds |-> 0, max_k_folds |-> 0]
    /\ ipa_pc = "idle"
    /\ tmp_dir = "none"
    /\ images = [state |-> "none"]
    /\ predicted_classes = <<>>
    /\ cv = [state |-> "none"]
    /\ ipa_outcome = "none"

\* no call of ImageList.__getitem__
NoGetItem ==
    /\ getitem_self = [image_ids |-> <<>>, images |-> <<>>]
    /\ getitem_idx = [kind |-> "none"]
    /\ getitem_result = [state |-> "none"]

\* no InterpretPickTransformer
NoPick ==
    /\ pick_args = [X |-> <<>>, threshold |-> <<0, 1>>, quantile |-> FALSE,
                    ignore_images_without_objects |-> TRUE, program |-> <<>>]
    /\ pick_call = [state |-> "none"]
    /\ slots = <<>>
    /\ interpreted = <<>>
    /\ fitted = [fitted |-> FALSE]
    /\ pick_log = <<>>

\* no call of _prepare_test_observations
NoPrep ==
    /\ prep_args = [test_images |-> <<>>, num_test_obs |-> 0]
    /\ prep_pc = "idle"
    /\ prep_pos = 0
    /\ test_obs = [concept_counts |-> <<>>, predicted_classes |-> <<>>,
                   iv_concept_counts |-> <<>>, iv_predicted_classes |-> <<>>]

\* no call of GlobalPerturber.perturb
NoPerturb ==
    /\ perturb_args = [influential_counts |-> <<>>, counts |-> <<>>,
                       sampler |-> <<>>, num_perturbations |-> 0]
    /\ perturb_pc = "idle"
    /\ sampler_pos = 0
    /\ yielded = <<>>

\* no write loop running
NoWrite ==
    /\ write_args = [loop |-> "none", output_url |-> ""]
    /\ write_pc = "idle"
    /\ output_url = ""
    /\ store = {}
    /\ attempts = <<>>
    /\ entered = <<>>
    /\ write_outcome = [state |-> "none"]

\* no ToOIV4ObjectNamesTranslator
NoTranslator ==
    /\ tr_args = [num_batches |-> 0, num_gpus |-> 0, batch_size |-> 0]
    /\ coord_pc = "idle"
    /\ batch_no = 0
    /\ pending_count = 0
    /\ sentinels = 0
    /\ drained = 0
    /\ in_queue = <<>>
    /\ unfinished_tasks = 0
    /\ out_queue = <<>>
    /\ processes = <<>>
    /\ yielded_results = <<>>

\* no directory for the run yet
InitRunner ==
    /\ exp_dir_exists = FALSE
    /\ ledger = [header |-> FALSE, rows |-> <<>>]
    /\ InitProcess
    /\ calls = 0

Init ==
    /\ InitRunner
    /\ NoSpread
    /\ NoIpa
    /\ NoGetItem
    /\ NoPick
    /\ NoPrep
    /\ NoPerturb
    /\ NoWrite
    /\ NoTranslator

(***************************************************************************)
(* run_experiments.                                                        *)
(***************************************************************************)
CallStarts(exps, resume) ==
    /\ pc = "idle"
    /\ calls < MaxCalls
    /\ exps \in ExperimentLists
    /\ calls' = calls + 1
    /\ continue_previous_run' = resume
    /\ ledger0' = ledger.rows
    /\ reached' = <<>>
    /\ assigned' = <<>>
    /\ executed' = <<>>
    /\ UNCHANGED slices

CallFails(error) ==
    /\ outcome' = error
    /\ pc' = "idle"
    /\ UNCHANGED <<diskVars, experiments, idx, done_counter, exp_no_by_params,
                   next_exp_no, exp_no, resume_at, rep_no, train_pos, buffer>>

\* lines 299-332 with continue_previous_run=False
StartFresh(exps) ==
    /\ UNCHANGED otherVars
    /\ CallStarts(exps, FALSE)
    /\ IF exp_dir_exists
       THEN CallFails("FileExistsError")
       ELSE /\ exp_dir_exists' = TRUE
            /\ ledger' = [ledger EXCEPT !.rows = OpenForAppend(@)]
            /\ buffer' = [header |-> TRUE, rows |-> <<>>]
            /\ done_counter' = <<>>
            /\ exp_no_by_params' = <<>>
            /\ next_exp_no' = 1
                    /\ experiments' = exps
            /\ idx' = 1
            /\ pc' = "loop"
            /\ outcome' = "running"
            /\ UNCHANGED <<exp_no, resume_at, rep_no, train_pos>>

\* lines 299-332 with continue_previous_run=True
StartResume(exps) ==
    /\ UNCHANGED otherVars
    /\ CallStarts(exps, TRUE)
    /\ LET loaded == LoadRows(ledger.rows, LoadInit)
       IN IF ~exp_dir_exists \/ ~loaded.ok
          THEN CallFails("AssertionError")
          ELSE IF ledger.rows = <<>>
          THEN CallFails("StopIteration")
          ELSE /\ ledger' = [ledger EXCEPT !.rows = OpenForAppend(@)]
               /\ buffer' = EmptyBuffer
               /\ done_counter' = loaded.done_counter
               /\ exp_no_by_params' = loaded.exp_no_by_params
               /\ next_exp_no' = loaded.next_exp_no
               /\ experiments' = exps
               /\ idx' = 1
               /\ pc' = "loop"
               /\ outcome' = "running"
               /\ UNCHANGED <<exp_dir_exists, exp_no, resume_at, rep_no, train_pos>>

\* line 337-338: the configuration already has its repetitions
SkipExperiment ==
    /\ UNCHANGED otherVars
    /\ pc = "loop"
    /\ idx <= Len(experiments)
    /\ LET e == experiments[idx]
       IN IsDone(CounterGet(done_counter, _freeze(e.params)), e.repetitions)
    /\ idx' = idx + 1
    /\ reached' = Append(reached, [idx |-> idx, experiment |-> experiments[idx],
                                   invoked |-> FALSE, rows_before |-> Len(ledger.rows)])
    /\ UNCHANGED <<diskVars, pc, continue_previous_run, experiments, done_counter,
                   exp_no_by_params, next_exp_no, exp_no, resume_at, rep_no,
                   train_pos, buffer, calls, outcome, ledger0, assigned, executed,
                   slices>>

\* lines 340-348 and 141-155: the experiment number, the counter, and the
\* start of Experiment.run up to its first repetition
EnterRun ==
    /\ UNCHANGED otherVars
    /\ pc = "loop"
    /\ idx <= Len(experiments)
    /\ LET e == experiments[idx]
           params == _freeze(e.params)
           known == params \in DOMAIN exp_no_by_params
           no == IF known THEN exp_no_by_params[params] ELSE next_exp_no
           at == CounterGet(done_counter, params) + 1
       IN /\ ~IsDone(CounterGet(done_counter, params), e.repetitions)
          /\ exp_no' = no
          /\ exp_no_by_params' =
                IF known THEN exp_no_by_params ELSE exp_no_by_params @@ (params :> no)
          /\ next_exp_no' = IF known THEN next_exp_no ELSE next_exp_no + 1
          /\ done_counter' = CounterAdd(done_counter, params)
          /\ resume_at' = at
          /\ reached' = Append(reached, [idx |-> idx, experiment |-> e, invoked |-> TRUE,
                                         rows_before |-> Len(ledger.rows)])
          /\ assigned' = Append(assigned, [idx |-> idx, experiment |-> e, exp_no |-> no])
          /\ train_pos' = skip_count(e, at)
          /\ rep_no' = at
          /\ IF at <= e.repetitions
             THEN pc' = "rep" /\ idx' = idx
             ELSE pc' = "loop" /\ idx' = idx + 1
    /\ UNCHANGED <<diskVars, continue_previous_run, experiments, buffer,
                   calls, outcome, ledger0, executed, slices>>

\* lines 156-198: one repetition; calibrate reads num_calibration_obs images
\* of the stream, ipa the next num_train_obs, then the result is yielded
RunRepetition ==
    /\ UNCHANGED otherVars
    /\ pc = "rep"
    /\ LET e == experiments[idx]
           c == e.params.num_calibration_obs
           t == e.params.num_train_obs
       IN /\ train_pos' = train_pos + c + t
          /\ slices' = slices \cup
                {[experiment |-> e, resume_at |-> resume_at, rep_no |-> rep_no,
                  from |-> train_pos, to |-> train_pos + c + t]}
          /\ executed' = Append(executed, [idx |-> idx, experiment |-> e,
                                           exp_no |-> exp_no, rep_no |-> rep_no])
    /\ pc' = "yielded"
    /\ UNCHANGED <<diskVars, continue_previous_run, experiments, idx, done_counter,
                   exp_no_by_params, next_exp_no, exp_no, resume_at, rep_no, buffer,
                   calls, outcome, ledger0, reached, assigned>>

\* lines 349-357: packed_writer.writerow
WriteRow ==
    /\ UNCHANGED otherVars
    /\ pc = "yielded"
    /\ buffer' = [buffer EXCEPT !.rows =
                    Append(@, [exp_no |-> exp_no,
                               params |-> experiments[idx].params,
                               rep_no |-> rep_no])]
    /\ pc' = "written"
    /\ UNCHANGED <<diskVars, continue_previous_run, experiments, idx, done_counter,
                   exp_no_by_params, next_exp_no, exp_no, resume_at, rep_no,
                   train_pos, histVars>>

\* line 358, then the generator is resumed: the next repetition, or the end
\* of Experiment.run and the next experiment
FlushRow ==
    /\ UNCHANGED otherVars
    /\ pc = "written"
    /\ LET f == Flush(ledger, buffer)
       IN ledger' = f.file /\ buffer' = f.buf
    /\ IF rep_no < experiments[idx].repetitions
       THEN rep_no' = rep_no + 1 /\ pc' = "rep" /\ idx' = idx
       ELSE rep_no' = rep_no /\ pc' = "loop" /\ idx' = idx + 1
    /\ UNCHANGED <<exp_dir_exists, continue_previous_run, experiments, done_counter,
                   exp_no_by_params, next_exp_no, exp_no, resume_at, train_pos,
                   histVars>>

\* the end of the loop of line 334: the file is closed and the call returns
FinishCall ==
    /\ UNCHANGED otherVars
    /\ pc = "loop"
    /\ idx > Len(experiments)
    /\ ledger' = [header |-> ledger.header \/ buffer.header,
                  rows |-> ledger.rows \o buffer.rows]
    /\ outcome' = "completed"
    /\ ProcReset
    /\ UNCHANGED <<exp_dir_exists, continue_previous_run, calls, ledger0,
                   reached, assigned, executed, slices>>

\* a repetition raises (calibration, IPA or scoring fails): the exception
\* leaves the with-block of line 329, which closes the file
RepetitionRaises ==
    /\ UNCHANGED otherVars
    /\ pc = "rep"
    /\ ledger' = [header |-> ledger.header \/ buffer.header,
                  rows |-> ledger.rows \o buffer.rows]
    /\ outcome' = "raised"
    /\ ProcReset
    /\ UNCHANGED <<exp_dir_exists, continue_previous_run, calls, ledger0,
                   reached, assigned, executed, slices>>

\* the process dies: what was written but not flushed is lost
Crash ==
    /\ UNCHANGED otherVars
    /\ pc # "idle"
    /\ outcome' = "crashed"
    /\ ProcReset
    /\ UNCHANGED <<diskVars, continue_previous_run, calls, ledger0,
                   reached, assigned, executed, slices>>

Next ==
    \/ \E exps \in ExperimentLists : StartFresh(exps)
    \/ \E exps \in ExperimentLists : StartResume(exps)
    \/ SkipExperiment
    \/ EnterRun
    \/ RunRepetition
    \/ WriteRow
    \/ FlushRow
    \/ FinishCall
    \/ RepetitionRaises
    \/ Crash

Spec == Init /\ [][Next]_vars

(***************************************************************************)
(* A ledger that run_experiments finds and did not write itself: edited by *)
(* hand, merged from two runs, or written by an older version of the       *)
(* program (rows without 'model_agnostic_picker').                         *)
(***************************************************************************)
\* rows of the ledger found
MaxForeignRows == 2

\* the params of ExperimentA as an older version wrote them
OlderParams ==
    [k \in (DOMAIN BaseParams) \ {"model_agnostic_picker"} |-> BaseParams[k]]

ForeignRows ==
    {[exp_no |-> 1, params |-> ExperimentA.params, rep_no |-> 1],
     [exp_no |-> 2, params |-> ExperimentA.params, rep_no |-> 1],
     [exp_no |-> 1, params |-> OlderParams, rep_no |-> 2],
     [exp_no |-> 2, params |-> ExperimentB.params, rep_no |-> 1]}

ForeignLedgers == SeqsUpTo(ForeignRows, MaxForeignRows)

\* the ledger found stands for the calls made before; one call is left
InitForeign ==
    /\ exp_dir_exists = TRUE
    /\ ledger \in {[header |-> TRUE, rows |-> rows] : rows \in ForeignLedgers}
    /\ InitProcess
    /\ calls = MaxCalls - 1
    /\ NoSpread
    /\ NoIpa
    /\ NoGetItem
    /\ NoPick
    /\ NoPrep
    /\ NoPerturb
    /\ NoWrite
    /\ NoTranslator

SpecForeign == InitForeign /\ [][Next]_vars

(***************************************************************************)
(* Experiment._spread_probs_to_all_classes, called once.                   *)
(***************************************************************************)
InitSpread ==
    /\ InitRunner
    /\ spread_args \in UNION {SpreadArgsOf(num_classes) : num_classes \in 2..MaxClasses}
    /\ spread_result = [state |-> "pending"]
    /\ NoIpa
    /\ NoGetItem
    /\ NoPick
    /\ NoPrep
    /\ NoPerturb
    /\ NoWrite
    /\ NoTranslator

SpreadProbs ==
    /\ spread_result.state = "pending"
    /\ spread_result' = _spread_probs_to_all_classes(spread_args.class_names,
                                                     spread_args.probs,
                                                     spread_args.classes_)
    /\ UNCHANGED <<spread_args, runnerVars, ipaVars, getitemVars, pickVars,
                   prepVars, perturbVars, writeVars, translatorVars>>

NextSpread == SpreadProbs

SpecSpread == InitSpread /\ [][NextSpread]_vars

(***************************************************************************)
(* ida.py: ImageList.  An ImageList holds two arrays of one length; an     *)
(* image stands for its pixels and is told apart by the class the          *)
(* classifier predicts for it.  Python indices count from 0.               *)
(***************************************************************************)
\* lines 50-56: ImageList.__init__ (the arrays built by
\* memory_mapped_image_list have 1 and 4 dimensions)
ImageList(image_ids, images_) ==
    IF Len(image_ids) # Len(images_)
    THEN [state |-> "error", error |-> "AssertionError"]
    ELSE [state |-> "ImageList", image_ids |-> image_ids, images |-> images_]

\* a[mask] of numpy for a boolean mask: the entries at the true positions
RECURSIVE TakeMask(_, _)
TakeMask(a, mask) ==
    IF a = <<>> THEN <<>>
    ELSE (IF Head(mask) THEN <<Head(a)>> ELSE <<>>)
             \o TakeMask(Tail(a), Tail(mask))

\* a[indices] of numpy for a list of integers: a negative index counts
\* from the end
TakeIndices(a, indices) ==
    [j \in DOMAIN indices |->
        a[(IF indices[j] < 0 THEN indices[j] + Len(a) ELSE indices[j]) + 1]]

\* numpy raises IndexError for a mask of another length and for an index
\* outside -len..len-1
IndexInBounds(a, idx_) ==
    IF idx_.kind = "mask"
    THEN Len(idx_.mask) = Len(a)
    ELSE \A j \in DOMAIN idx_.indices :
            idx_.indices[j] >= 0 - Len(a) /\ idx_.indices[j] < Len(a)

Take(a, idx_) ==
    IF idx_.kind = "mask" THEN TakeMask(a, idx_.mask)
    ELSE TakeIndices(a, idx_.indices)

\* a faulty variant: only the images are indexed
__getitem__IdsKept(self, idx_) ==
    IF idx_.kind \notin {"mask", "indices"} \/ ~IndexInBounds(self.images, idx_)
    THEN [state |-> "error", error |-> "IndexError"]
    ELSE ImageList(self.image_ids, Take(self.images, idx_))

\* lines 58-64: ImageList.__getitem__; idx is a boolean mask or a list of
\* integers (both Iterable), one integer, or anything else, such as a slice
__getitem__(self, idx_) ==
    IF idx_.kind \in {"mask", "indices"}
    THEN IF ~IndexInBounds(self.image_ids, idx_)
         THEN [state |-> "error", error |-> "IndexError"]
         ELSE ImageList(Take(self.image_ids, idx_), Take(self.images, idx_))
    ELSE IF idx_.kind = "integer"
    THEN IF ~IndexInBounds(self.image_ids, [kind |-> "indices", indices |-> <<idx_.integer>>])
         THEN [state |-> "error", error |-> "IndexError"]
         ELSE [state |-> "pair",
               image_id |-> TakeIndices(self.image_ids, <<idx_.integer>>)[1],
               image |-> TakeIndices(self.images, <<idx_.integer>>)[1]]
    ELSE [state |-> "error", error |-> "ValueError"]

(***************************************************************************)
(* ida.py: the planning of the folds.                                      *)
(***************************************************************************)
Min(a, b) == IF a <= b THEN a ELSE b

\* collections.Counter(xs)
CounterOf(xs) ==
    [s \in {xs[i] : i \in DOMAIN xs} |->
        Cardinality({i \in DOMAIN xs : xs[i] = s})]

\* sorted(pairs, key=lambda x: (1.0 / (x[1] + 1), x[0])): the larger count
\* first, and the smaller class among equal counts
RECURSIVE SortedByCount(_)
SortedByCount(pairs) ==
    IF pairs = {} THEN <<>>
    ELSE LET first == CHOOSE p \in pairs : \A q \in pairs :
                          p[2] > q[2] \/ (p[2] = q[2] /\ p[1] <= q[1])
         IN <<first>> \o SortedByCount(pairs \ {first})

\* a faulty variant: the entry that all_classes adds to every class is counted
class_countsWithUniverse(predicted_classes_, all_classes) ==
    LET counts == CounterOf(predicted_classes_ \o all_classes)
    IN SortedByCount({<<s, counts[s]>> : s \in DOMAIN counts})

\* lines 24-31: class_counts, all_classes being a list (m = 1)
class_counts(predicted_classes_, all_classes) ==
    LET counts == CounterOf(predicted_classes_ \o all_classes)
        m == 1
    IN SortedByCount({<<s, counts[s] - m>> : s \in DOMAIN counts})

\* a faulty variant: a class needs more than min_k_folds observations
filter_for_splitStrict(predicted_classes_, min_k_folds, all_classes) ==
    LET counted == class_counts(predicted_classes_, all_classes)
        enough_samples == {counted[j][1] : j \in
                              {i \in DOMAIN counted : counted[i][2] > min_k_folds}}
    IN [i \in DOMAIN predicted_classes_ |->
            predicted_classes_[i] \in enough_samples]

\* lines 34-41: filter_for_split
filter_for_split(predicted_classes_, min_k_folds, all_classes) ==
    LET counted == class_counts(predicted_classes_, all_classes)
        enough_samples == {counted[j][1] : j \in
                              {i \in DOMAIN counted : counted[i][2] >= min_k_folds}}
    IN [i \in DOMAIN predicted_classes_ |->
            predicted_classes_[i] \in enough_samples]

\* Counter.most_common(): the entries, the most frequent first
most_common(counter) == SortedByCount({<<s, counter[s]>> : s \in DOMAIN counter})

\* a faulty variant: the most frequent class decides
determine_k_foldsMostFrequent(predicted_classes_, max_k_folds) ==
    LET ordered == most_common(CounterOf(predicted_classes_))
    IN Min(max_k_folds, ordered[1][2])

\* lines 44-45: determine_k_folds
determine_k_folds(predicted_classes_, max_k_folds) ==
    LET ordered == most_common(CounterOf(predicted_classes_))
    IN Min(max_k_folds, ordered[Len(ordered)][2])

\* np.any(indices)
np_any(indices) == \E i \in DOMAIN indices : indices[i]

\* lines 116-123: the grid search is built and fitted on the observations
\* that indices selects
FitSearch(images_, predicted_classes_, filtered, indices, cv_) ==
    LET X == __getitem__(images_, [kind |-> "mask", mask |-> indices])
    IN IF X.state = "error" THEN X
       ELSE [state |-> "fit", filtered |-> filtered, indices |-> indices,
             cv |-> cv_, X |-> X, y |-> TakeMask(predicted_classes_, indices)]

\* a faulty variant: an empty mask is an error
run_cvWithoutFallback(images_, predicted_classes_, all_classes, min_k_folds, max_k_folds) ==
    IF ~(min_k_folds <= max_k_folds)
    THEN [state |-> "error", error |-> "AssertionError"]
    ELSE LET indices == filter_for_split(predicted_classes_, min_k_folds, all_classes)
         IN IF ~np_any(indices)
            THEN [state |-> "error", error |-> "ValueError"]
            ELSE FitSearch(images_, predicted_classes_, indices, indices,
                           [strategy |-> "StratifiedKFold",
                            n_splits |-> determine_k_folds(
                                TakeMask(predicted_classes_, indices), max_k_folds)])

\* lines 93-123: run_cv
run_cv(images_, predicted_classes_, all_classes, min_k_folds, max_k_folds) ==
    IF ~(min_k_folds <= max_k_folds)
    THEN [state |-> "error", error |-> "AssertionError"]
    ELSE LET indices == filter_for_split(predicted_classes_, min_k_folds, all_classes)
         IN IF ~np_any(indices)
            THEN FitSearch(images_, predicted_classes_, indices,
                           [i \in DOMAIN indices |-> TRUE],
                           [strategy |-> "KFold", n_splits |-> min_k_folds])
            ELSE FitSearch(images_, predicted_classes_, indices, indices,
                           [strategy |-> "StratifiedKFold",
                            n_splits |-> determine_k_folds(
                                TakeMask(predicted_classes_, indices), max_k_folds)])

(***************************************************************************)
(* ida.py: one call of ipa.  An image of image_iter is its id and its      *)
(* pixels; the classifier is deterministic and the pixels stand for the    *)
(* class it predicts.                                                      *)
(***************************************************************************)
\* images handed to one call
MaxObs == 4
\* classes of the classifier
MaxLabels == 3
\* largest number of folds asked for
MaxFolds == 5

\* predictions of a 3-class classifier with the class counts [10, 3, 1]
ScenarioLabels == <<0, 0, 0, 1, 0, 0, 2, 0, 1, 0, 0, 0, 1, 0>>

\* list(range(type2.classifier.num_classes))
range(n) == [i \in 1..n |-> i - 1]

\* what ipa leaves alone
ipaOthers == <<runnerVars, spreadVars, getitemVars, pickVars, prepVars,
               perturbVars, writeVars, translatorVars>>

InitIpa ==
    /\ InitRunner
    /\ NoSpread
    /\ NoGetItem
    /\ NoPick
    /\ NoPrep
    /\ NoPerturb
    /\ NoWrite
    /\ NoTranslator
    /\ \E labels \in SeqsUpTo(0..(MaxLabels - 1), MaxObs) \cup {ScenarioLabels},
          min_k_folds \in 2..MaxFolds, max_k_folds \in 2..MaxFolds :
            ipa_args = [image_iter |-> [i \in DOMAIN labels |-> <<i, labels[i]>>],
                        num_classes |-> MaxLabels,
                        min_k_folds |-> min_k_folds,
                        max_k_folds |-> max_k_folds]
    /\ ipa_pc = "start"
    /\ tmp_dir = "none"
    /\ images = [state |-> "none"]
    /\ predicted_classes = <<>>
    /\ cv = [state |-> "none"]
    /\ ipa_outcome = "none"

\* an exception leaves memory_mapped_image_list before its try statement
RaiseBeforeTry(error) ==
    /\ ipa_pc' = "exited"
    /\ ipa_outcome' = error

\* lines 72-74: the iterator is consumed into two arrays; zip(*image_iter)
\* of no image yields nothing to unpack
Materialise ==
    /\ ipa_pc = "start"
    /\ IF ipa_args.image_iter = <<>>
       THEN RaiseBeforeTry("ValueError")
       ELSE ipa_pc' = "arrays" /\ UNCHANGED ipa_outcome
    /\ UNCHANGED <<ipa_args, tmp_dir, images, predicted_classes, cv>>
    /\ UNCHANGED ipaOthers

\* lines 76-81: tempfile.mkdtemp() and the names of the two files in it
MakeTempDir ==
    /\ ipa_pc = "arrays"
    /\ tmp_dir' = "exists"
    /\ ipa_pc' = "tmp_dir"
    /\ UNCHANGED <<ipa_args, images, predicted_classes, cv, ipa_outcome>>
    /\ UNCHANGED ipaOthers

\* lines 82-83: joblib.dump of both arrays; writing may fail (disk full)
DumpArrays ==
    /\ ipa_pc = "tmp_dir"
    /\ \/ ipa_pc' = "dumped" /\ UNCHANGED ipa_outcome
       \/ RaiseBeforeTry("OSError")
    /\ UNCHANGED <<ipa_args, tmp_dir, images, predicted_classes, cv>>
    /\ UNCHANGED ipaOthers

\* lines 84-85: joblib.load of both files as memory maps; mapping may fail
LoadMapped ==
    /\ ipa_pc = "dumped"
    /\ \/ ipa_pc' = "mapped" /\ UNCHANGED ipa_outcome
       \/ RaiseBeforeTry("OSError")
    /\ UNCHANGED <<ipa_args, tmp_dir, images, predicted_classes, cv>>
    /\ UNCHANGED ipaOthers

\* lines 87-88: the ImageList is built and yielded to the with statement
YieldImageList ==
    /\ ipa_pc = "mapped"
    /\ images' = ImageList([i \in DOMAIN ipa_args.image_iter |-> ipa_args.image_iter[i][1]],
                           [i \in DOMAIN ipa_args.image_iter |-> ipa_args.image_iter[i][2]])
    /\ ipa_pc' = "with"
    /\ UNCHANGED <<ipa_args, tmp_dir, predicted_classes, cv, ipa_outcome>>
    /\ UNCHANGED ipaOthers

\* ipa, lines 223-227: one prediction for each image; predicting may raise
ObserveClassifier ==
    /\ ipa_pc = "with"
    /\ \/ /\ predicted_classes' = images.images
          /\ ipa_pc' = "observed"
          /\ UNCHANGED ipa_outcome
       \/ /\ ipa_pc' = "leaving"
          /\ ipa_outcome' = "RuntimeError"
          /\ UNCHANGED predicted_classes
    /\ UNCHANGED <<ipa_args, tmp_dir, images, cv>>
    /\ UNCHANGED ipaOthers

\* ipa, lines 229-241: run_cv; an error of run_cv or of the fitting leaves
\* the with statement
RunCv ==
    /\ ipa_pc = "observed"
    /\ cv' = run_cv(images, predicted_classes, range(ipa_args.num_classes),
                    ipa_args.min_k_folds, ipa_args.max_k_folds)
    /\ ipa_pc' = "leaving"
    /\ IF cv'.state = "error"
       THEN ipa_outcome' = cv'.error
       ELSE ipa_outcome' \in {"returned", "fit raised"}
    /\ UNCHANGED <<ipa_args, tmp_dir, images, predicted_classes>>
    /\ UNCHANGED ipaOthers

\* lines 89-90: the finally clause of memory_mapped_image_list
LeaveWith ==
    /\ ipa_pc = "leaving"
    /\ tmp_dir' = "removed"
    /\ ipa_pc' = "exited"
    /\ UNCHANGED <<ipa_args, images, predicted_classes, cv, ipa_outcome>>
    /\ UNCHANGED ipaOthers

NextIpa ==
    \/ Materialise
    \/ MakeTempDir
    \/ DumpArrays
    \/ LoadMapped
    \/ YieldImageList
    \/ ObserveClassifier
    \/ RunCv
    \/ LeaveWith

SpecIpa == InitIpa /\ [][NextIpa]_vars

(***************************************************************************)
(* ida.py: ImageList.__getitem__, called once on an ImageList of up to     *)
(* MaxObs images, each one of two pictures, whose ids are 1, 2, ...        *)
(***************************************************************************)
\* length of a list of indices
MaxIndices == 2

\* what may be handed to __getitem__ as idx
Indexes ==
    {[kind |-> "mask", mask |-> mask] : mask \in SeqsUpTo(BOOLEAN, MaxObs)}
    \cup {[kind |-> "indices", indices |-> indices] :
             indices \in SeqsUpTo((0 - MaxObs - 1)..MaxObs, MaxIndices)}
    \cup {[kind |-> "integer", integer |-> i] : i \in (0 - MaxObs - 1)..MaxObs}
    \cup {[kind |-> "slice"]}

InitGetItem ==
    /\ InitRunner
    /\ NoSpread
    /\ NoIpa
    /\ NoPick
    /\ NoPrep
    /\ NoPerturb
    /\ NoWrite
    /\ NoTranslator
    /\ \E pictures \in SeqsUpTo(0..1, MaxObs) :
          getitem_self = ImageList([i \in DOMAIN pictures |-> i], pictures)
    /\ getitem_idx \in Indexes
    /\ getitem_result = [state |-> "pending"]

\* lines 58-64: self[idx]; nothing is assigned to self
GetItem ==
    /\ getitem_result.state = "pending"
    /\ getitem_result' = __getitem__(getitem_self, getitem_idx)
    /\ UNCHANGED <<getitem_self, getitem_idx>>
    /\ UNCHANGED <<runnerVars, spreadVars, ipaVars, pickVars, prepVars,
                   perturbVars, writeVars, translatorVars>>

NextGetItem == GetItem

SpecGetItem == InitGetItem /\ [][NextGetItem]_vars

(***************************************************************************)
(* ida.py: InterpretPickTransformer, with a GroundTruthObjectsInterpreter  *)
(* and a calibrated explainer.  An image is the entry the object provider  *)
(* has for it: no entry, or a list of boxes, each the id of its object and *)
(* the flag the explainer computes for the pixels under it.  Influences    *)
(* are fractions <<numerator, denominator>>.                               *)
(***************************************************************************)
\* images of a corpus
MaxImages == 2

\* ground_truth_objects.py, lines 39-41: the names of the objects
concepts == <<"person", "dog", "car">>

NoEntry == [has_entry |-> FALSE, boxes |-> <<>>]

Entry(boxes) == [has_entry |-> TRUE, boxes |-> boxes]

\* the images a corpus is made of
ImageKinds ==
    {Entry(<<<<0, 1>>>>),
     Entry(<<<<0, 0>>, <<1, 1>>>>),
     Entry(<<<<1, 0>>, <<1, 1>>>>),
     Entry(<<<<0, 0>>, <<1, 0>>>>),
     Entry(<<<<0, 1>>, <<1, 1>>, <<2, 1>>>>),
     Entry(<<>>),
     NoEntry}

\* values of the parameter threshold
Thresholds == {<<0, 1>>, <<1, 4>>, <<1, 2>>, <<1, 1>>}

\* the calls made on one transformer, in turn
Programs ==
    {<<"fit", "transform", "fit_transform">>,
     <<"fit_transform", "transform">>,
     <<"transform">>}

Less(r, t) == r[1] * t[2] < t[1] * r[2]

Same(r, t) == r[1] * t[2] = t[1] * r[2]

\* ground_truth_objects.py, lines 46-72: GroundTruthObjectsInterpreter.__call__,
\* a generator of (object_id, mask); the lookup of line 59 raises KeyError
\* for an image without entry
Interpreter__call__(image, ignore_images_without_objects) ==
    IF ~image.has_entry
    THEN IF ignore_images_without_objects
         THEN [state |-> "ok", yielded |-> <<>>]
         ELSE [state |-> "error", error |-> "KeyError"]
    ELSE [state |-> "ok", yielded |-> image.boxes]

\* gradient.py, lines 47-79: the explainer yields (concept_id, mask,
\* influential) for each mask of the interpreter
type2(image, ignore_images_without_objects) ==
    Interpreter__call__(image, ignore_images_without_objects)

\* Interpreter.concept_ids_to_counts: how often each concept occurs
concept_ids_to_counts(concept_ids) ==
    [c \in DOMAIN concepts |->
        Cardinality({j \in DOMAIN concept_ids : concept_ids[j] = c - 1})]

IsInfluential(box) == box[2] # 0

\* lines 142-147: _get_single_counts; zip(*...) of nothing yielded leaves
\* nothing to unpack at line 143
_get_single_counts(image, ignore_images_without_objects) ==
    LET explained == type2(image, ignore_images_without_objects)
    IN IF explained.state = "error" THEN explained
       ELSE IF explained.yielded = <<>>
       THEN [state |-> "error", error |-> "ValueError"]
       ELSE LET concept_ids == [j \in DOMAIN explained.yielded |-> explained.yielded[j][1]]
                influential == SelectSeq(explained.yielded, IsInfluential)
                influential_concept_ids == [j \in DOMAIN influential |-> influential[j][1]]
            IN [state |-> "ok",
                counts |-> concept_ids_to_counts(concept_ids),
                influential_counts |-> concept_ids_to_counts(influential_concept_ids)]

\* a faulty variant: the rows are written to one place and the last one stays
SumRowsLastWins(rows) == rows[Len(rows)]

\* np.sum(np.asarray(rows), axis=0)
RECURSIVE SumRows(_)
SumRows(rows) ==
    IF Len(rows) = 1 THEN rows[1]
    ELSE LET rest == SumRows(Tail(rows))
         IN [c \in DOMAIN rest |-> rows[1][c] + rest[c]]

\* np.quantile(a, q), linear interpolation between the two nearest of the
\* sorted values
np_quantile(a, q) ==
    LET order == CHOOSE o \in [DOMAIN a -> DOMAIN a] :
                    /\ \A i, j \in DOMAIN a : i # j => o[i] # o[j]
                    /\ \A i, j \in DOMAIN a : i < j => ~Less(a[o[j]], a[o[i]])
        h == q[1] * (Len(a) - 1)
        lo == h \div q[2]
        part == h % q[2]
        below == a[order[lo + 1]]
        above == IF lo + 1 < Len(a) THEN a[order[lo + 2]] ELSE below
    IN <<below[1] * above[2] * q[2]
            + part * (above[1] * below[2] - below[1] * above[2]),
         below[2] * above[2] * q[2]>>

\* len(np.unique(concept_influences)) == 1
AllSame(concept_influences) ==
    /\ concept_influences # <<>>
    /\ \A i, j \in DOMAIN concept_influences :
          Same(concept_influences[i], concept_influences[j])

\* a faulty variant: an influence equal to the threshold is enough
get_influential_conceptsInclusive(concept_influences, quantile, threshold) ==
    IF quantile /\ AllSame(concept_influences)
    THEN range(Len(concept_influences))
    ELSE LET limit == IF quantile THEN np_quantile(concept_influences, threshold)
                      ELSE threshold
             Above(c) == ~Less(concept_influences[c + 1], limit)
         IN SelectSeq(range(Len(concept_influences)), Above)

\* a faulty variant: the quantile is taken of identical influences as well
get_influential_conceptsNoSpecialCase(concept_influences, quantile, threshold) ==
    LET limit == IF quantile THEN np_quantile(concept_influences, threshold)
                 ELSE threshold
        Above(c) == Less(limit, concept_influences[c + 1])
    IN SelectSeq(range(Len(concept_influences)), Above)

\* lines 197-206: get_influential_concepts
get_influential_concepts(concept_influences, quantile, threshold) ==
    IF quantile /\ AllSame(concept_influences)
    THEN range(Len(concept_influences))
    ELSE LET limit == IF quantile THEN np_quantile(concept_influences, threshold)
                      ELSE threshold
             Above(c) == Less(limit, concept_influences[c + 1])
         IN SelectSeq(range(Len(concept_influences)), Above)

\* a faulty variant: a concept that never occurs has influence 1
_evaluate_countersNoOccurrenceIsOne(counts, influential_counts, quantile, threshold) ==
    LET total == SumRows(counts)
        influential == SumRows(influential_counts)
        concept_influences ==
            [c \in DOMAIN concepts |->
                IF total[c] = 0 THEN <<1, 1>> ELSE <<influential[c], total[c]>>]
    IN [fitted |-> TRUE,
        counts |-> total,
        influential_counts |-> influential,
        concept_influences_ |-> concept_influences,
        picked_concepts_ |->
            get_influential_concepts(concept_influences, quantile, threshold)]

\* lines 154-177: _evaluate_counters, the sums of lines 155-156 and the
\* attributes it sets
_evaluate_counters(counts, influential_counts, quantile, threshold) ==
    LET total == SumRows(counts)
        influential == SumRows(influential_counts)
        concept_influences ==
            [c \in DOMAIN concepts |->
                IF total[c] = 0 THEN <<0, 1>> ELSE <<influential[c], total[c]>>]
    IN [fitted |-> TRUE,
        counts |-> total,
        influential_counts |-> influential,
        concept_influences_ |-> concept_influences,
        picked_concepts_ |->
            get_influential_concepts(concept_influences, quantile, threshold)]

\* np.asarray(counts)[:, picked_concepts]
Columns(counts, picked_concepts) ==
    [i \in DOMAIN counts |->
        [j \in DOMAIN picked_concepts |-> counts[i][picked_concepts[j] + 1]]]

\* lines 149-152: what _get_counts returns once every worker has returned
CountsOf(results) == [i \in DOMAIN results |-> results[i].counts]

InfluentialCountsOf(results) == [i \in DOMAIN results |-> results[i].influential_counts]

\* lines 179-183: fit
fit(self, results, args) ==
    [self |-> _evaluate_counters(CountsOf(results), InfluentialCountsOf(results),
                                 args.quantile, args.threshold),
     outcome |-> [state |-> "self"]]

\* lines 185-189: transform
transform(self, results, args) ==
    [self |-> self,
     outcome |-> [state |-> "matrix",
                  matrix |-> Columns(CountsOf(results), self.picked_concepts_)]]

\* a faulty variant: the counts are returned whole
fit_transformAllColumns(self, results, args) ==
    LET evaluated == _evaluate_counters(CountsOf(results), InfluentialCountsOf(results),
                                        args.quantile, args.threshold)
    IN [self |-> evaluated,
        outcome |-> [state |-> "matrix", matrix |-> CountsOf(results)]]

\* lines 191-195: fit_transform
fit_transform(self, results, args) ==
    LET evaluated == _evaluate_counters(CountsOf(results), InfluentialCountsOf(results),
                                        args.quantile, args.threshold)
    IN [self |-> evaluated,
        outcome |-> [state |-> "matrix",
                     matrix |-> Columns(CountsOf(results), evaluated.picked_concepts_)]]

\* what the calls on the transformer leave alone
pickOthers == <<runnerVars, spreadVars, ipaVars, getitemVars, prepVars,
                perturbVars, writeVars, translatorVars>>

InitPick ==
    /\ InitRunner
    /\ NoSpread
    /\ NoIpa
    /\ NoGetItem
    /\ NoPrep
    /\ NoPerturb
    /\ NoWrite
    /\ NoTranslator
    /\ \E X \in SeqsUpTo(ImageKinds, MaxImages), threshold \in Thresholds,
          quantile \in BOOLEAN, ignore_images_without_objects \in BOOLEAN,
          program \in Programs :
            pick_args = [X |-> X, threshold |-> threshold, quantile |-> quantile,
                         ignore_images_without_objects |-> ignore_images_without_objects,
                         program |-> program]
    /\ pick_call = [state |-> "idle"]
    /\ slots = <<>>
    /\ interpreted = <<>>
    /\ fitted = [fitted |-> FALSE]
    /\ pick_log = <<>>

\* the call that ends is put on record
Ended(op, outcome_, interpreted_) ==
    /\ pick_log' = Append(pick_log, [op |-> op, outcome |-> outcome_,
                                     interpreted |-> interpreted_])
    /\ pick_call' = [state |-> "idle"]

\* the next call of the program: check_is_fitted (line 186) stops a transform
\* on an unfitted transformer; otherwise _get_counts hands one
\* _get_single_counts per image to the workers (lines 149-151)
Call ==
    /\ pick_call.state = "idle"
    /\ Len(pick_log) < Len(pick_args.program)
    /\ LET op == pick_args.program[Len(pick_log) + 1]
       IN /\ interpreted' = [i \in DOMAIN pick_args.X |-> 0]
          /\ IF op = "transform" /\ ~fitted.fitted
             THEN /\ Ended(op, [state |-> "error", error |-> "NotFittedError"],
                        [i \in DOMAIN pick_args.X |-> 0])
                  /\ UNCHANGED slots
             ELSE /\ pick_call' = [state |-> "running", op |-> op]
                  /\ slots' = [i \in DOMAIN pick_args.X |-> [state |-> "pending"]]
                  /\ UNCHANGED pick_log
    /\ UNCHANGED <<pick_args, fitted>>
    /\ UNCHANGED pickOthers

\* lines 142-147: a worker runs _get_single_counts on image i
Worker(i) ==
    /\ pick_call.state = "running"
    /\ slots[i].state = "pending"
    /\ slots' = [slots EXCEPT ![i] =
                    _get_single_counts(pick_args.X[i],
                                       pick_args.ignore_images_without_objects)]
    /\ interpreted' = [interpreted EXCEPT ![i] = @ + 1]
    /\ UNCHANGED <<pick_args, pick_call, fitted, pick_log>>
    /\ UNCHANGED pickOthers

\* the exception of a worker leaves _get_counts and the method
WorkerRaised ==
    /\ pick_call.state = "running"
    /\ \E i \in DOMAIN slots :
          /\ slots[i].state = "error"
          /\ Ended(pick_call.op, slots[i], interpreted)
    /\ UNCHANGED <<pick_args, slots, interpreted, fitted>>
    /\ UNCHANGED pickOthers

\* every worker has returned: the method goes on after _get_counts; of an
\* empty corpus there is nothing to unpack (lines 180, 187, 192)
Returned ==
    /\ pick_call.state = "running"
    /\ \A i \in DOMAIN slots : slots[i].state = "ok"
    /\ IF slots = <<>>
       THEN /\ Ended(pick_call.op, [state |-> "error", error |-> "ValueError"],
                       interpreted)
            /\ UNCHANGED fitted
       ELSE LET done == IF pick_call.op = "fit" THEN fit(fitted, slots, pick_args)
                        ELSE IF pick_call.op = "transform"
                        THEN transform(fitted, slots, pick_args)
                        ELSE fit_transform(fitted, slots, pick_args)
            IN /\ fitted' = done.self
               /\ Ended(pick_call.op, done.outcome, interpreted)
    /\ UNCHANGED <<pick_args, slots, interpreted>>
    /\ UNCHANGED pickOthers

NextPick ==
    \/ Call
    \/ \E i \in DOMAIN slots : Worker(i)
    \/ WorkerRaised
    \/ Returned

SpecPick == InitPick /\ [][NextPick]_vars

(***************************************************************************)
(* _prepare_test_observations (experiment.py).  The interpreter and the    *)
(* classifier are arguments: an image of the stream is given by its id and *)
(* by the number of counterfactuals the interpreter yields for it, and a   *)
(* value computed from an image records the image it was computed from.    *)
(***************************************************************************)
\* number of images of the stream
MaxTestImages == 3
\* number of counterfactuals an interpreter yields for one image
MaxCounterfactuals == 2

\* line 67: interpreter.count_concepts(image=image, image_id=image_id)
count_concepts(image) == [counts_of |-> image.image_id]

\* lines 68 and 75: classifier.predict_single
predict_single(image) == [prediction_of |-> image]

\* lines 71-73: next(iter(interpreter.get_counterfactuals(...))); the
\* iterator of an image without counterfactual raises StopIteration
FirstCounterfactual(image) ==
    IF image.counterfactuals = 0
    THEN [raised |-> "StopIteration"]
    ELSE [raised |-> "none",
          iv_counts |-> [counts_of |-> image.image_id],
          iv_image |-> [counterfactual_of |-> image.image_id]]

\* line 70: with suppress(StopIteration), the two appends of lines 74-75 are
\* left out when next() raises
AppendCounterfactual(obs, image) ==
    LET first == FirstCounterfactual(image)
    IN IF first.raised = "StopIteration"
       THEN obs
       ELSE [obs EXCEPT
                !.iv_concept_counts = Append(@, first.iv_counts),
                !.iv_predicted_classes = Append(@, predict_single(first.iv_image))]

prepOthers == <<runnerVars, spreadVars, ipaVars, getitemVars, pickVars,
                perturbVars, writeVars, translatorVars>>

InitPrep ==
    /\ InitRunner
    /\ NoSpread
    /\ NoIpa
    /\ NoGetItem
    /\ NoPick
    /\ NoPerturb
    /\ NoWrite
    /\ NoTranslator
    /\ \E cfs \in SeqsUpTo(0..MaxCounterfactuals, MaxTestImages),
          n \in 0..MaxTestImages :
          prep_args = [test_images |->
                           [i \in 1..Len(cfs) |->
                               [image_id |-> i, counterfactuals |-> cfs[i]]],
                       num_test_obs |-> n]
    /\ prep_pc = "loop"
    /\ prep_pos = 0
    /\ test_obs = [concept_counts |-> <<>>, predicted_classes |-> <<>>,
                   iv_concept_counts |-> <<>>, iv_predicted_classes |-> <<>>]

\* lines 66-75: one iteration of the loop over islice(test_iter, num_test_obs)
TestObservation ==
    /\ prep_pc = "loop"
    /\ prep_pos < prep_args.num_test_obs
    /\ prep_pos < Len(prep_args.test_images)
    /\ LET image == prep_args.test_images[prep_pos + 1]
           obs == [test_obs EXCEPT
                      !.concept_counts = Append(@, count_concepts(image)),
                      !.predicted_classes =
                          Append(@, predict_single(image.image_id))]
       IN test_obs' = AppendCounterfactual(obs, image)
    /\ prep_pos' = prep_pos + 1
    /\ UNCHANGED <<prep_args, prep_pc, prepOthers>>

\* line 77: the slice is exhausted, the four lists are returned
ReturnObservations ==
    /\ prep_pc = "loop"
    /\ \/ prep_pos >= prep_args.num_test_obs
       \/ prep_pos >= Len(prep_args.test_images)
    /\ prep_pc' = "returned"
    /\ UNCHANGED <<prep_args, prep_pos, test_obs, prepOthers>>

NextPrep ==
    \/ TestObservation
    \/ ReturnObservations

SpecPrep == InitPrep /\ [][NextPrep]_vars

(***************************************************************************)
(* simexp/perturb.py (the same text is in simexp/make_train_data.py):      *)
(* GlobalPerturber.perturb.  A count array has one entry per object class. *)
(* A sampler that never ends is a list of samples drawn round and round.   *)
(***************************************************************************)
\* the value of GlobalPerturber.num_perturbations
MaxPerturbations == 2

\* count arrays over three object classes
CountArrays == {<<0, 0, 0>>, <<1, 0, 0>>, <<0, 2, 1>>, <<2, 1, 0>>}

\* samplers: the samples, each with its image id, that come round
Samplers ==
    {<<[sample_counts |-> <<0, 0, 0>>, sample_id |-> "a"]>>,
     <<[sample_counts |-> <<0, 1, 3>>, sample_id |-> "b"],
       [sample_counts |-> <<3, 0, 0>>, sample_id |-> "c"]>>,
     <<[sample_counts |-> <<1, 1, 1>>, sample_id |-> "d"],
       [sample_counts |-> <<0, 3, 0>>, sample_id |-> "e"],
       [sample_counts |-> <<2, 2, 2>>, sample_id |-> "f"]>>}

\* next() of the sampler that has handed out n samples
NextSample(sampler, n) == sampler[(n % Len(sampler)) + 1]

\* line 104: np.any of an array of counts
np_anyCount(a) == \E i \in DOMAIN a : a[i] # 0

\* a faulty variant: the sample replaces the influential counts
np_maximumSampleOnly(a, b) == b

\* line 109: np.maximum of two arrays of one length
np_maximum(a, b) == [i \in DOMAIN a |-> Max(a[i], b[i])]

perturbOthers ==
    <<runnerVars, spreadVars, ipaVars, getitemVars, pickVars, prepVars,
      writeVars, translatorVars>>

InitPerturb ==
    /\ InitRunner
    /\ NoSpread
    /\ NoIpa
    /\ NoGetItem
    /\ NoPick
    /\ NoPrep
    /\ NoWrite
    /\ NoTranslator
    /\ \E influential_counts \in CountArrays, counts \in CountArrays,
          sampler \in Samplers, num_perturbations \in 0..MaxPerturbations :
          perturb_args = [influential_counts |-> influential_counts,
                          counts |-> counts,
                          sampler |-> sampler,
                          num_perturbations |-> num_perturbations]
    /\ perturb_pc = "start"
    /\ sampler_pos = 0
    /\ yielded = <<>>

\* line 102: yield counts, None
YieldOriginal ==
    /\ perturb_pc = "start"
    /\ yielded' = Append(yielded, [counts |-> perturb_args.counts,
                                   sample_id |-> "None"])
    /\ perturb_pc' = IF np_anyCount(perturb_args.influential_counts)
                     THEN "sampling"
                     ELSE "exhausted"
    /\ UNCHANGED <<perturb_args, sampler_pos, perturbOthers>>

\* lines 106-110: one more sample of islice(sampler, num_perturbations)
YieldCombined ==
    /\ perturb_pc = "sampling"
    /\ sampler_pos < perturb_args.num_perturbations
    /\ LET sample == NextSample(perturb_args.sampler, sampler_pos)
           combined_counts == np_maximum(perturb_args.influential_counts,
                                         sample.sample_counts)
       IN yielded' = Append(yielded, [counts |-> combined_counts,
                                      sample_id |-> sample.sample_id])
    /\ sampler_pos' = sampler_pos + 1
    /\ UNCHANGED <<perturb_args, perturb_pc, perturbOthers>>

\* the slice of line 106 is exhausted
SliceExhausted ==
    /\ perturb_pc = "sampling"
    /\ sampler_pos >= perturb_args.num_perturbations
    /\ perturb_pc' = "exhausted"
    /\ UNCHANGED <<perturb_args, sampler_pos, yielded, perturbOthers>>

NextPerturb ==
    \/ YieldOriginal
    \/ YieldCombined
    \/ SliceExhausted

SpecPerturb == InitPerturb /\ [][NextPerturb]_vars

(***************************************************************************)
(* The write loops of SparkSessionConfig.write_petastorm (simexp/spark.py) *)
(* and of main (thesis_impl/places365/translate.py).  A write with         *)
(* mode('error') fails when its destination exists; any write can fail for *)
(* another reason.                                                         *)
(***************************************************************************)
\* number of write attempts of one loop
MaxAttempts == 3

Urls == {"hdfs://a", "hdfs://b", "hdfs://c"}

Loops == {"write_petastorm", "main"}

\* spark.py line 130 writes to the variable output_url, translate.py line 762
\* to args.output_url
ParquetDestination(loop, args_output_url, output_url_) ==
    IF loop = "write_petastorm" THEN output_url_ ELSE args_output_url

writeOthers ==
    <<runnerVars, spreadVars, ipaVars, getitemVars, pickVars, prepVars,
      perturbVars, translatorVars>>

InitWrite ==
    /\ InitRunner
    /\ NoSpread
    /\ NoIpa
    /\ NoGetItem
    /\ NoPick
    /\ NoPrep
    /\ NoPerturb
    /\ NoTranslator
    /\ \E loop \in Loops, url \in Urls :
          /\ write_args = [loop |-> loop, output_url |-> url]
          /\ output_url = url
    /\ store \in SUBSET Urls
    /\ write_pc = "try"
    /\ attempts = <<>>
    /\ entered = <<>>
    /\ write_outcome = [state |-> "none"]

\* the try block succeeds and the else branch breaks
WriteSucceeds ==
    /\ write_pc = "try"
    /\ Len(attempts) < MaxAttempts
    /\ LET destination == ParquetDestination(write_args.loop,
                                             write_args.output_url, output_url)
       IN /\ destination \notin store
          /\ store' = store \cup {destination}
          /\ attempts' = Append(attempts, [materialized |-> output_url,
                                           written |-> destination,
                                           exception |-> "none"])
    /\ write_pc' = "done"
    /\ write_outcome' = [state |-> "written"]
    /\ UNCHANGED <<write_args, output_url, entered, writeOthers>>

\* the try block raises: the destination exists, or something else went
\* wrong; the handler logs the exception and waits in input()
WriteFails ==
    /\ write_pc = "try"
    /\ Len(attempts) < MaxAttempts
    /\ LET destination == ParquetDestination(write_args.loop,
                                             write_args.output_url, output_url)
       IN \E e \in IF destination \in store
                   THEN {"AnalysisException"}
                   ELSE {"IOError"} :
             attempts' = Append(attempts, [materialized |-> output_url,
                                           written |-> destination,
                                           exception |-> e])
    /\ write_pc' = "input"
    /\ UNCHANGED <<write_args, output_url, store, entered, write_outcome,
                   writeOthers>>

\* the operator enters another url: output_url = other_url, next iteration
OperatorEnters(other_url) ==
    /\ write_pc = "input"
    /\ other_url # ""
    /\ entered' = Append(entered, other_url)
    /\ output_url' = other_url
    /\ write_pc' = "try"
    /\ UNCHANGED <<write_args, store, attempts, write_outcome, writeOthers>>

\* the operator enters nothing: raise e
OperatorGivesUp ==
    /\ write_pc = "input"
    /\ entered' = Append(entered, "")
    /\ write_pc' = "done"
    /\ write_outcome' = [state |-> "raised",
                         exception |-> attempts[Len(attempts)].exception,
                         attempt |-> Len(attempts)]
    /\ UNCHANGED <<write_args, output_url, store, attempts, writeOthers>>

NextWrite ==
    \/ WriteSucceeds
    \/ WriteFails
    \/ \E other_url \in Urls : OperatorEnters(other_url)
    \/ OperatorGivesUp

SpecWrite == InitWrite /\ [][NextWrite]_vars

(***************************************************************************)
(* thesis_impl/places365/translate.py: ToOIV4ObjectNamesTranslator and its *)
(* TFObjectDetectionProcess workers.  Batch i of batch_iter is the number  *)
(* i, its detection result as well; None is 0.  A queue of maxsize m takes *)
(* a put only while it holds fewer than m entries.  The consumer of the    *)
(* generator always asks for the next result.                              *)
(***************************************************************************)
\* number of batches of batch_iter
MaxBatches == 3
\* torch.cuda.device_count()
MaxGpus == 2
\* read_cfg.batch_size
MaxBatchSize == 2

None == 0

\* line 500: one process per GPU, one process when there is no GPU
NumProcesses(num_gpus) == IF num_gpus > 0 THEN num_gpus ELSE 1

\* line 502: mp.JoinableQueue(maxsize=max(1, num_gpus))
InQueueMaxsize(num_gpus) == Max(1, num_gpus)

\* line 503: mp.Queue(maxsize=read_cfg.batch_size)
OutQueueMaxsize(batch_size) == batch_size

Full(queue, maxsize) == Len(queue) >= maxsize

translatorOthers ==
    <<runnerVars, spreadVars, ipaVars, getitemVars, pickVars, prepVars,
      perturbVars, writeVars>>

\* lines 499-508 and 554-558: the queues are empty, the processes started
InitTranslator ==
    /\ InitRunner
    /\ NoSpread
    /\ NoIpa
    /\ NoGetItem
    /\ NoPick
    /\ NoPrep
    /\ NoPerturb
    /\ NoWrite
    /\ \E num_batches \in 0..MaxBatches, num_gpus \in 0..MaxGpus,
          batch_size \in 1..MaxBatchSize :
          /\ tr_args = [num_batches |-> num_batches, num_gpus |-> num_gpus,
                        batch_size |-> batch_size]
          /\ coord_pc = IF num_batches > 0 THEN "put" ELSE "put_none"
          /\ processes = [p \in 1..NumProcesses(num_gpus) |->
                             [pc |-> "get", in_batch |-> None]]
    /\ batch_no = 0
    /\ pending_count = 0
    /\ sentinels = 0
    /\ drained = 0
    /\ in_queue = <<>>
    /\ unfinished_tasks = 0
    /\ out_queue = <<>>
    /\ yielded_results = <<>>

\* where the generator goes on behind lines 563-568
AfterGetNowait == IF batch_no < tr_args.num_batches THEN "put" ELSE "put_none"

\* lines 559-561: self.in_queue.put(batch), which waits for a free slot
PutBatch ==
    /\ coord_pc = "put"
    /\ ~Full(in_queue, InQueueMaxsize(tr_args.num_gpus))
    /\ in_queue' = Append(in_queue, batch_no + 1)
    /\ unfinished_tasks' = unfinished_tasks + 1
    /\ batch_no' = batch_no + 1
    /\ pending_count' = pending_count + 1
    /\ coord_pc' = "get_nowait"
    /\ UNCHANGED <<tr_args, sentinels, drained, out_queue, processes, yielded_results,
                   translatorOthers>>

\* lines 563-564 and 567-568: get_nowait returns a result, which is yielded
GetNowait ==
    /\ coord_pc = "get_nowait"
    /\ out_queue # <<>>
    /\ yielded_results' = Append(yielded_results, Head(out_queue))
    /\ out_queue' = Tail(out_queue)
    /\ pending_count' = pending_count - 1
    /\ coord_pc' = AfterGetNowait
    /\ UNCHANGED <<tr_args, batch_no, sentinels, drained, in_queue,
                   unfinished_tasks, processes, translatorOthers>>

\* lines 565-566: get_nowait raises queue.Empty
GetNowaitEmpty ==
    /\ coord_pc = "get_nowait"
    /\ out_queue = <<>>
    /\ coord_pc' = AfterGetNowait
    /\ UNCHANGED <<tr_args, batch_no, pending_count, sentinels, drained,
                   in_queue, unfinished_tasks, out_queue, processes, yielded_results,
                   translatorOthers>>

\* lines 570-571: one None per process
PutNone ==
    /\ coord_pc = "put_none"
    /\ ~Full(in_queue, InQueueMaxsize(tr_args.num_gpus))
    /\ in_queue' = Append(in_queue, None)
    /\ unfinished_tasks' = unfinished_tasks + 1
    /\ sentinels' = sentinels + 1
    /\ coord_pc' = IF sentinels + 1 = Len(processes) THEN "join" ELSE "put_none"
    /\ UNCHANGED <<tr_args, batch_no, pending_count, drained, out_queue,
                   processes, yielded_results, translatorOthers>>

\* line 572: self.in_queue.join() returns when every entry put has been
\* marked done
Join ==
    /\ coord_pc = "join"
    /\ unfinished_tasks = 0
    /\ coord_pc' = IF pending_count > 0 THEN "drain" ELSE "join_processes"
    /\ UNCHANGED <<tr_args, batch_no, pending_count, sentinels, drained,
                   in_queue, unfinished_tasks, out_queue, processes, yielded_results,
                   translatorOthers>>

\* lines 574-575: yield self.out_queue.get(), pending_count times
Drain ==
    /\ coord_pc = "drain"
    /\ out_queue # <<>>
    /\ yielded_results' = Append(yielded_results, Head(out_queue))
    /\ out_queue' = Tail(out_queue)
    /\ drained' = drained + 1
    /\ coord_pc' = IF drained + 1 = pending_count THEN "join_processes"
                   ELSE "drain"
    /\ UNCHANGED <<tr_args, batch_no, pending_count, sentinels, in_queue,
                   unfinished_tasks, processes, translatorOthers>>

\* lines 577-578: p.join() of every process
JoinProcesses ==
    /\ coord_pc = "join_processes"
    /\ \A p \in DOMAIN processes : processes[p].pc = "exited"
    /\ coord_pc' = "done"
    /\ UNCHANGED <<tr_args, batch_no, pending_count, sentinels, drained,
                   in_queue, unfinished_tasks, out_queue, processes, yielded_results,
                   translatorOthers>>

\* TFObjectDetectionProcess.run, lines 472-478: in_queue.get(); on None the
\* entry is marked done and the process ends, else the model is run
ProcessGets(p) ==
    /\ p \in DOMAIN processes
    /\ processes[p].pc = "get"
    /\ in_queue # <<>>
    /\ in_queue' = Tail(in_queue)
    /\ IF Head(in_queue) = None
       THEN /\ unfinished_tasks' = unfinished_tasks - 1
            /\ processes' = [processes EXCEPT ![p].pc = "exited"]
       ELSE /\ unfinished_tasks' = unfinished_tasks
            /\ processes' = [processes EXCEPT ![p] =
                                [pc |-> "put", in_batch |-> Head(in_queue)]]
    /\ UNCHANGED <<tr_args, coord_pc, batch_no, pending_count, sentinels,
                   drained, out_queue, yielded_results, translatorOthers>>

\* TFObjectDetectionProcess.run, lines 479-480: out_queue.put(out_batch),
\* which waits for a free slot, then in_queue.task_done()
ProcessPuts(p) ==
    /\ p \in DOMAIN processes
    /\ processes[p].pc = "put"
    /\ ~Full(out_queue, OutQueueMaxsize(tr_args.batch_size))
    /\ out_queue' = Append(out_queue, processes[p].in_batch)
    /\ unfinished_tasks' = unfinished_tasks - 1
    /\ processes' = [processes EXCEPT ![p] = [pc |-> "get", in_batch |-> None]]
    /\ UNCHANGED <<tr_args, coord_pc, batch_no, pending_count, sentinels,
                   drained, in_queue, yielded_results, translatorOthers>>

NextTranslator ==
    \/ PutBatch
    \/ GetNowait
    \/ GetNowaitEmpty
    \/ PutNone
    \/ Join
    \/ Drain
    \/ JoinProcesses
    \/ \E p \in 1..MaxGpus : ProcessGets(p)
    \/ \E p \in 1..MaxGpus : ProcessPuts(p)

SpecTranslator == InitTranslator /\ [][NextTranslator]_vars

(***************************************************************************)
(* Properties.                                                             *)
(***************************************************************************)
\* the value of a key parameter in a params dict; rows of older versions
\* have no 'model_agnostic_picker' and stand for 'passthrough'
KeyValue(params, k) ==
    IF k \in DOMAIN params THEN params[k] ELSE "passthrough"

SameKeyParams(p, q) == \A k \in KEY_PARAMS : KeyValue(p, k) = KeyValue(q, k)

\* the rows of a ledger that belong to the fingerprint of experiment e
RowsFor(rows, e) ==
    Cardinality({i \in DOMAIN rows : SameKeyParams(rows[i].params, e.params)})

\* the rows the current call has added to the file
AppendedRows ==
    IF Len(ledger.rows) >= Len(ledger0)
    THEN SubSeq(ledger.rows, Len(ledger0) + 1, Len(ledger.rows))
    ELSE <<>>

\* the rows of the results Experiment.run has yielded in the current call
YieldedRows ==
    [k \in DOMAIN executed |->
        [exp_no |-> executed[k].exp_no,
         params |-> executed[k].experiment.params,
         rep_no |-> executed[k].rep_no]]

\* the loop of line 334 has gone through the whole list
ListProcessed == pc = "loop" /\ idx > Len(experiments)

\* C1: a run resumed at repetition n > 1 starts its first repetition at the
\* stream position at which a run started at repetition 1 starts its
\* repetition n (it skips what the test images and repetitions 1..n-1 consume)
C1_ResumeSkipsWhatWasConsumed ==
    \A s, u \in slices :
        (/\ s.experiment = u.experiment
         /\ s.resume_at > 1
         /\ s.rep_no = s.resume_at
         /\ u.resume_at = 1
         /\ u.rep_no = s.rep_no) => s.from = u.from

\* C2: the ledger holds at most one row for each pair of experiment number
\* and repetition number
C2_OneRowPerExperimentAndRepetition ==
    \A i, j \in DOMAIN ledger.rows :
        (/\ ledger.rows[i].exp_no = ledger.rows[j].exp_no
         /\ ledger.rows[i].rep_no = ledger.rows[j].rep_no) => i = j

\* C3: in a resuming call, Experiment.run is not invoked and no repetition is
\* executed for a configuration whose fingerprint had at least `repetitions`
\* rows in the ledger when the call started; when this is so for the whole
\* list, the ledger stays what it was
C3_CompletedConfigurationNotRun ==
    continue_previous_run =>
        /\ \A k \in DOMAIN reached :
              reached[k].invoked =>
                 RowsFor(ledger0, reached[k].experiment) < reached[k].experiment.repetitions
        /\ \A k \in DOMAIN executed :
              RowsFor(ledger0, executed[k].experiment) < executed[k].experiment.repetitions
        /\ (/\ pc # "idle"
            /\ \A i \in DOMAIN experiments :
                  RowsFor(ledger0, experiments[i]) >= experiments[i].repetitions)
           => (ledger.rows = ledger0 /\ buffer.rows = <<>>)

C3_Witness ==
    /\ continue_previous_run
    /\ ListProcessed
    /\ ledger0 # <<>>
    /\ \A i \in DOMAIN experiments :
          RowsFor(ledger0, experiments[i]) >= experiments[i].repetitions
    /\ ledger.rows = ledger0

\* C4: when a resuming call has gone through its list, every configuration of
\* the list whose fingerprint had d < R rows in the ledger when the loop came
\* to it has executed exactly the repetitions d+1, ..., R, in this order
C4_ResumeRunsMissingRepetitions ==
    (continue_previous_run /\ ListProcessed) =>
        \A n \in DOMAIN reached :
            LET e == reached[n].experiment
                d == RowsFor(SubSeq(ledger.rows, 1, reached[n].rows_before), e)
                ran == SelectSeq(executed, LAMBDA x : x.idx = reached[n].idx)
            IN d < e.repetitions =>
                  /\ Len(ran) = e.repetitions - d
                  /\ \A k \in DOMAIN ran : ran[k].rep_no = d + k

\* C5: two rows of the ledger, two configurations numbered in one call, or a
\* configuration numbered in a call and a row of the ledger, have the same
\* experiment number exactly when they agree on every key parameter
C5_SameNumberIffSameKeyParams ==
    /\ \A i, j \in DOMAIN ledger.rows :
          (ledger.rows[i].exp_no = ledger.rows[j].exp_no)
              <=> SameKeyParams(ledger.rows[i].params, ledger.rows[j].params)
    /\ \A a, b \in DOMAIN assigned :
          (assigned[a].exp_no = assigned[b].exp_no)
              <=> SameKeyParams(assigned[a].experiment.params,
                                assigned[b].experiment.params)
    /\ \A a \in DOMAIN assigned, i \in DOMAIN ledger.rows :
          (assigned[a].exp_no = ledger.rows[i].exp_no)
              <=> SameKeyParams(assigned[a].experiment.params, ledger.rows[i].params)

C5_Witness ==
    /\ continue_previous_run
    /\ \E a \in DOMAIN assigned, i \in DOMAIN ledger0 :
          /\ assigned[a].exp_no = ledger0[i].exp_no
          /\ assigned[a].experiment.params # ledger0[i].params
    /\ \E a \in DOMAIN assigned, i \in DOMAIN ledger0 :
          assigned[a].exp_no # ledger0[i].exp_no

\* two rows with one fingerprint and different experiment numbers
Inconsistent(rows) ==
    \E i, j \in DOMAIN rows :
        /\ SameKeyParams(rows[i].params, rows[j].params)
        /\ rows[i].exp_no # rows[j].exp_no

\* C6: a resuming call on a ledger with two rows of one fingerprint and
\* different experiment numbers fails with the assertion error, runs no
\* repetition and leaves the ledger as it was
C6_InconsistentLedgerAborts ==
    (continue_previous_run /\ Inconsistent(ledger0)) =>
        /\ pc = "idle"
        /\ outcome = "AssertionError"
        /\ reached = <<>>
        /\ executed = <<>>
        /\ ledger.rows = ledger0

C6_Witness ==
    /\ continue_previous_run
    /\ Inconsistent(ledger0)
    /\ outcome = "AssertionError"

\* C7: during and after a resuming call the rows the ledger held before the
\* call are a prefix of the rows it holds
C7_PriorRowsStayAPrefix ==
    continue_previous_run => IsPrefix(ledger0, ledger.rows)

C7_Witness ==
    /\ continue_previous_run
    /\ Len(ledger0) >= 2
    /\ Len(ledger.rows) >= Len(ledger0) + 2
    /\ IsPrefix(ledger0, ledger.rows)

\* C8: at every point of a call, and so after a crash at that point, the file
\* holds the rows of all results yielded in the call, in their order, except
\* at most the last one
C8_OnlyLastYieldedRowMayBeMissing ==
    /\ IsPrefix(AppendedRows, YieldedRows)
    /\ Len(AppendedRows) >= Len(YieldedRows) - 1

C8_Witness ==
    /\ outcome = "crashed"
    /\ Len(YieldedRows) >= 2
    /\ Len(AppendedRows) = Len(YieldedRows) - 1
    /\ IsPrefix(AppendedRows, YieldedRows)

\* C9: for one configuration, the stream positions read by two repetitions
\* with different numbers do not overlap
C9_RepetitionSlicesDisjoint ==
    \A s, u \in slices :
        (s.experiment = u.experiment /\ s.rep_no # u.rep_no)
            => (s.to <= u.from \/ u.to <= s.from)

\* C10: the call returns a matrix in which column c is the surrogate's column
\* for class c when c is in classes_, and 0 in every row otherwise
C10_SpreadPutsEachClassInItsColumn ==
    spread_result.state # "pending" =>
        /\ spread_result.state = "returned"
        /\ \A r \in DOMAIN spread_args.probs, c \in DOMAIN spread_args.class_names :
              spread_result.value[r][c] =
                 IF \E j \in DOMAIN spread_args.classes_ : spread_args.classes_[j] = c
                 THEN spread_args.probs[r][CHOOSE j \in DOMAIN spread_args.classes_ :
                                              spread_args.classes_[j] = c]
                 ELSE 0

(***************************************************************************)
(* Properties of ipa.                                                      *)
(***************************************************************************)
\* the class the classifier predicts for each image handed to ipa
Labels == [i \in DOMAIN ipa_args.image_iter |-> ipa_args.image_iter[i][2]]

\* the observations the classifier assigns to class c
Occurrences(c) == Cardinality({i \in DOMAIN Labels : Labels[i] = c})

Universe == 0..(ipa_args.num_classes - 1)

\* the classes with enough observations
Retained == {c \in Universe : Occurrences(c) >= ipa_args.min_k_folds}

\* run_cv ran past its assertion
CvPlanned == cv.state # "none" /\ ipa_args.min_k_folds <= ipa_args.max_k_folds

\* C11, as stated: when filter_for_split lets no observation pass, run_cv
\* reports an error and fits the grid search on no population
C11_EmptyMaskIsAnError ==
    (CvPlanned /\ ~np_any(filter_for_split(Labels, ipa_args.min_k_folds,
                                           range(ipa_args.num_classes))))
        => cv.state = "error"

\* C11, amended: when filter_for_split lets no observation pass, run_cv
\* raises no error of its own and fits the grid search on the whole
\* population, every image with its label, split by a plain KFold
C11_EmptyMaskFitsWholePopulation ==
    (CvPlanned /\ ~np_any(filter_for_split(Labels, ipa_args.min_k_folds,
                                           range(ipa_args.num_classes))))
        => /\ cv.state = "fit"
           /\ cv.X = images
           /\ cv.y = predicted_classes
           /\ cv.cv.strategy = "KFold"

C11_Witness ==
    /\ cv.state = "fit"
    /\ ~np_any(cv.filtered)
    /\ Len(cv.y) >= ipa_args.min_k_folds
    /\ ipa_pc = "exited"
    /\ ipa_outcome = "returned"

\* C12: if every class of the universe occurs fewer than min_k_folds times
\* among the predicted labels, the mask of run_cv is true for every
\* observation and the splitter is a plain KFold with n_splits = min_k_folds
C12_TooFewEverywhereFallsBackToKFold ==
    (CvPlanned /\ \A c \in Universe : Occurrences(c) < ipa_args.min_k_folds)
        => /\ cv.state = "fit"
           /\ Len(cv.indices) = Len(Labels)
           /\ \A i \in DOMAIN cv.indices : cv.indices[i]
           /\ cv.cv = [strategy |-> "KFold", n_splits |-> ipa_args.min_k_folds]

\* some class misses the minimum by one observation
C12_Witness ==
    /\ cv.state = "fit"
    /\ \A c \in Universe : Occurrences(c) < ipa_args.min_k_folds
    /\ \E c \in Universe : Occurrences(c) = ipa_args.min_k_folds - 1
    /\ \E c \in Universe : Occurrences(c) = 0
    /\ Len(Labels) >= ipa_args.min_k_folds

\* C13: whenever min_k_folds <= max_k_folds, run_cv chooses a fold count; it
\* exceeds neither max_k_folds nor the number of observations of any class
\* that filter_for_split retains
C13_FoldCountBounded ==
    CvPlanned
        => /\ cv.state = "fit"
           /\ cv.cv.n_splits <= ipa_args.max_k_folds
           /\ \A c \in Retained : cv.cv.n_splits <= Occurrences(c)

\* two retained classes of different size, the smaller one deciding
C13_Witness ==
    /\ cv.state = "fit"
    /\ cv.cv.strategy = "StratifiedKFold"
    /\ cv.cv.n_splits < ipa_args.max_k_folds
    /\ \E c, d \in Retained : Occurrences(c) < Occurrences(d)
    /\ \E c \in Retained : cv.cv.n_splits = Occurrences(c)

\* C14: when some class has at least min_k_folds predicted observations, an
\* observation is included iff its predicted class occurs at least
\* min_k_folds times; with the counts [10, 3, 1] and min_k_folds = 5 exactly
\* the observations of class 0 are included and the fold count is
\* min(max_k_folds, 10)
C14_IncludedIffClassHasEnough ==
    (CvPlanned /\ Retained # {})
        => /\ cv.state = "fit"
           /\ DOMAIN cv.indices = DOMAIN Labels
           /\ \A i \in DOMAIN Labels :
                 cv.indices[i] <=> (Occurrences(Labels[i]) >= ipa_args.min_k_folds)
           /\ (Labels = ScenarioLabels /\ ipa_args.min_k_folds = 5)
                 => /\ \A i \in DOMAIN Labels : cv.indices[i] <=> (Labels[i] = 0)
                    /\ cv.cv.n_splits = Min(ipa_args.max_k_folds, 10)

C14_Witness ==
    /\ cv.state = "fit"
    /\ Labels = ScenarioLabels
    /\ ipa_args.min_k_folds = 5
    /\ Len(cv.y) = 10
    /\ \A i \in DOMAIN cv.y : cv.y[i] = 0

\* C18: the temporary directory that memory_mapped_image_list created is
\* removed on every path that leaves it: the normal exit, an exception in the
\* with block, a failure while the arrays are dumped or memory-mapped
C18_TempDirRemovedOnEveryExit ==
    (ipa_pc = "exited" /\ tmp_dir # "none") => tmp_dir = "removed"

(***************************************************************************)
(* Properties of ImageList.                                                *)
(***************************************************************************)
\* idx is a boolean mask of the length of the ImageList, or a list of
\* indices of the ImageList
ValidSelection ==
    \/ /\ getitem_idx.kind = "mask"
       /\ Len(getitem_idx.mask) = Len(getitem_self.image_ids)
    \/ /\ getitem_idx.kind = "indices"
       /\ \A j \in DOMAIN getitem_idx.indices :
             /\ getitem_idx.indices[j] >= 0 - Len(getitem_self.image_ids)
             /\ getitem_idx.indices[j] < Len(getitem_self.image_ids)

\* the number of positions that idx selects
NumSelected ==
    IF getitem_idx.kind = "mask"
    THEN Cardinality({p \in DOMAIN getitem_idx.mask : getitem_idx.mask[p]})
    ELSE Len(getitem_idx.indices)

\* the i-th position that idx selects, counted from 1
SelectedPosition(i) ==
    IF getitem_idx.kind = "mask"
    THEN CHOOSE p \in DOMAIN getitem_idx.mask :
            /\ getitem_idx.mask[p]
            /\ Cardinality({q \in 1..p : getitem_idx.mask[q]}) = i
    ELSE IF getitem_idx.indices[i] < 0
         THEN getitem_idx.indices[i] + Len(getitem_self.image_ids) + 1
         ELSE getitem_idx.indices[i] + 1

\* C19: indexing an ImageList by a list of its indices or by a boolean mask
\* of its length returns an ImageList with as many ids as images as selected
\* positions, whose i-th id and image are those of the source at the i-th
\* selected position
C19_IndexingSelectsPairs ==
    (getitem_result.state \notin {"none", "pending"} /\ ValidSelection)
        => /\ getitem_result.state = "ImageList"
           /\ Len(getitem_result.image_ids) = NumSelected
           /\ Len(getitem_result.images) = NumSelected
           /\ \A i \in 1..NumSelected :
                 /\ getitem_result.image_ids[i]
                        = getitem_self.image_ids[SelectedPosition(i)]
                 /\ getitem_result.images[i]
                        = getitem_self.images[SelectedPosition(i)]

\* a mask that skips the first image and keeps two others
C19_Witness ==
    /\ getitem_result.state = "ImageList"
    /\ getitem_idx.kind = "mask"
    /\ Len(getitem_idx.mask) > 2
    /\ ~getitem_idx.mask[1]
    /\ Len(getitem_result.image_ids) = 2
    /\ getitem_result.images[1] # getitem_result.images[2]

(***************************************************************************)
(* Properties of InterpretPickTransformer.                                 *)
(***************************************************************************)
\* the total count of each concept that fit sums up from its workers
TotalCounts ==
    SumRows([i \in DOMAIN pick_args.X |->
                _get_single_counts(pick_args.X[i],
                                   pick_args.ignore_images_without_objects).counts])

NeverOccurs(c) == TotalCounts[c + 1] = 0

ConceptIds == 0..(Len(concepts) - 1)

IsPicked(c) == \E j \in DOMAIN fitted.picked_concepts_ : fitted.picked_concepts_[j] = c

ThresholdIsZero == Same(pick_args.threshold, <<0, 1>>)

InfluencesIdentical ==
    \A c, d \in DOMAIN fitted.concept_influences_ :
        Same(fitted.concept_influences_[c], fitted.concept_influences_[d])

\* C15, as stated: after fit a concept that occurs nowhere in the corpus has
\* influence 0 and, unless the threshold is 0, is not picked, in
\* fixed-threshold mode and in quantile mode
C15_ConceptWithoutOccurrenceNotPicked ==
    fitted.fitted =>
        \A c \in ConceptIds :
            NeverOccurs(c) =>
                /\ Same(fitted.concept_influences_[c + 1], <<0, 1>>)
                /\ ~ThresholdIsZero => ~IsPicked(c)

\* C15, amended: after fit a concept that occurs nowhere in the corpus has
\* influence 0 and is not picked, unless the threshold is 0 or, in quantile
\* mode, all influences are identical
C15_ConceptWithoutOccurrenceNotPickedUnlessIdentical ==
    fitted.fitted =>
        \A c \in ConceptIds :
            NeverOccurs(c) =>
                /\ Same(fitted.concept_influences_[c + 1], <<0, 1>>)
                /\ (~ThresholdIsZero /\ ~(pick_args.quantile /\ InfluencesIdentical))
                      => ~IsPicked(c)

\* quantile mode, one concept missing from the corpus and another picked
C15_Witness ==
    /\ fitted.fitted
    /\ pick_args.quantile
    /\ ~ThresholdIsZero
    /\ \E c \in ConceptIds : NeverOccurs(c) /\ ~IsPicked(c)
    /\ \E c \in ConceptIds : IsPicked(c)

\* C16: in quantile mode, if all influences are identical after fit, the
\* picked concepts are the full list 0..N-1, whatever the threshold
C16_IdenticalInfluencesPickAll ==
    (fitted.fitted /\ pick_args.quantile /\ InfluencesIdentical)
        => fitted.picked_concepts_ = range(Len(concepts))

\* every concept always influential, and the quantile level 1
C16_Witness ==
    /\ fitted.fitted
    /\ pick_args.quantile
    /\ \A c \in DOMAIN fitted.concept_influences_ :
          Same(fitted.concept_influences_[c], <<1, 1>>)
    /\ pick_args.threshold = <<1, 1>>
    /\ Len(fitted.picked_concepts_) = Len(concepts)

\* C17: a fit_transform that returns has interpreted each image exactly once
\* and returns the matrix that transform returns after fit on the corpus
C17_FitTransformIsFitThenTransform ==
    \A k \in DOMAIN pick_log :
        (pick_log[k].op = "fit_transform" /\ pick_log[k].outcome.state = "matrix")
            => /\ \A i \in DOMAIN pick_args.X : pick_log[k].interpreted[i] = 1
               /\ \A j \in DOMAIN pick_log :
                     (pick_log[j].op = "transform" /\ pick_log[j].outcome.state = "matrix")
                         => pick_log[j].outcome.matrix = pick_log[k].outcome.matrix

\* fit, transform, fit_transform on two images, some concepts picked and
\* some not
C17_Witness ==
    /\ Len(pick_log) = 3
    /\ pick_log[1].op = "fit"
    /\ pick_log[2].outcome.state = "matrix"
    /\ pick_log[3].outcome.state = "matrix"
    /\ Len(pick_args.X) = 2
    /\ Len(fitted.picked_concepts_) \in 1..(Len(concepts) - 1)

\* C20: with ignore_images_without_objects, a fit or transform over a corpus
\* whose images have objects or no entry at all ends without error, the
\* images without entry counting for nothing; without the flag, an image
\* without entry makes the call fail
C20_ImagesWithoutEntrySkipped ==
    \A k \in DOMAIN pick_log :
        (pick_log[k].outcome.state = "error"
            => pick_log[k].outcome.error # "NotFittedError")
        => /\ (/\ pick_args.ignore_images_without_objects
               /\ \A i \in DOMAIN pick_args.X :
                     ~pick_args.X[i].has_entry \/ pick_args.X[i].boxes # <<>>
               /\ \E i \in DOMAIN pick_args.X : pick_args.X[i].has_entry)
                  => pick_log[k].outcome.state # "error"
           /\ (/\ ~pick_args.ignore_images_without_objects
               /\ \E i \in DOMAIN pick_args.X : ~pick_args.X[i].has_entry)
                  => pick_log[k].outcome.state = "error"

\* the sum of f over the images of the corpus
RECURSIVE SumOverImages(_, _)
SumOverImages(f(_), n) == IF n = 0 THEN 0 ELSE f(n) + SumOverImages(f, n - 1)

\* the boxes of concept c in image i, and the influential ones among them
BoxesOf(i, c) ==
    {b \in DOMAIN pick_args.X[i].boxes : pick_args.X[i].boxes[b][1] = c}

InfluentialBoxesOf(i, c) ==
    {b \in BoxesOf(i, c) : pick_args.X[i].boxes[b][2] # 0}

\* the influence ratio of concept c over the corpus
RatioOf(c) ==
    LET total(i) == Cardinality(BoxesOf(i, c))
        influential(i) == Cardinality(InfluentialBoxesOf(i, c))
        n == Len(pick_args.X)
    IN IF SumOverImages(total, n) = 0 THEN <<0, 1>>
       ELSE <<SumOverImages(influential, n), SumOverImages(total, n)>>

\* C22: in fixed-threshold mode the picked concepts after fit are, in
\* ascending order, exactly the concepts whose influence ratio is strictly
\* greater than the threshold
C22_FixedThresholdPicksStrictlyAbove ==
    (fitted.fitted /\ ~pick_args.quantile)
        => /\ \A c \in ConceptIds :
                 IsPicked(c) <=> Less(pick_args.threshold, RatioOf(c))
           /\ \A j, k \in DOMAIN fitted.picked_concepts_ :
                 j < k => fitted.picked_concepts_[j] < fitted.picked_concepts_[k]

\* one concept above the threshold and one exactly at it
C22_Witness ==
    /\ fitted.fitted
    /\ ~pick_args.quantile
    /\ \E c \in ConceptIds : IsPicked(c)
    /\ \E c \in ConceptIds :
          /\ Same(RatioOf(c), pick_args.threshold)
          /\ ~ThresholdIsZero
          /\ ~IsPicked(c)

\* C23: a fit that returns has had every worker return, each image
\* interpreted once, and its sums are the column sums of what the workers
\* counted for the images, whatever the order in which they returned
C23_SumsAfterAllWorkers ==
    \A k \in DOMAIN pick_log :
        (pick_log[k].op \in {"fit", "fit_transform"}
            /\ pick_log[k].outcome.state # "error")
        => /\ \A i \in DOMAIN pick_args.X : pick_log[k].interpreted[i] = 1
           /\ \A c \in ConceptIds :
                 LET total(i) == Cardinality(BoxesOf(i, c))
                     influential(i) == Cardinality(InfluentialBoxesOf(i, c))
                 IN /\ fitted.counts[c + 1]
                          = SumOverImages(total, Len(pick_args.X))
                    /\ fitted.influential_counts[c + 1]
                          = SumOverImages(influential, Len(pick_args.X))

\* two images with boxes of the same concept, the second worker returning
\* first
C23_Witness ==
    /\ pick_call.state = "running"
    /\ pick_call.op = "fit_transform"
    /\ Len(pick_log) = 2
    /\ pick_log[1].outcome.state = "self"
    /\ Len(slots) = 2
    /\ slots[1].state = "pending"
    /\ slots[2].state = "ok"
    /\ fitted.counts[2] > 1

\* C29: for a non-empty list of predicted labels and min_k_folds <=
\* max_k_folds, the fold count that run_cv chooses is at most the number of
\* observations it includes, in the stratified case and in the fallback
C29_FoldCountAtMostIncluded ==
    (CvPlanned /\ Labels # <<>>)
        => /\ cv.state = "fit"
           /\ cv.cv.n_splits <= Len(cv.y)


(***************************************************************************)
(* Properties of resuming and of the held-out images.                      *)
(***************************************************************************)
\* C26: a call with continue_previous_run=True on a ledger of an existing
\* run that holds no result row does not fail, and every configuration it
\* runs starts at repetition 1
C26_ResumeBeforeFirstRow ==
    (calls > 0 /\ continue_previous_run /\ exp_dir_exists /\ ledger0 = <<>>)
        => /\ outcome \notin {"StopIteration", "AssertionError"}
           /\ pc \in {"rep", "yielded", "written"} => resume_at = 1

\* C30: every stream position read for calibration or training by a
\* repetition, in a first or a resumed run, lies behind the first
\* num_test_obs positions, which the test observations are computed from
C30_TrainingAvoidsTestImages ==
    \A s \in slices :
        \A p \in s.from .. (s.to - 1) : p >= s.experiment.params.num_test_obs

\* a first run and a resumed run of configurations with test images have
\* both read images
C30_Witness ==
    /\ \E s \in slices : /\ s.resume_at = 1
                         /\ s.to > s.from
                         /\ s.experiment.params.num_test_obs > 0
    /\ \E s \in slices : /\ s.resume_at > 1
                         /\ s.to > s.from
                         /\ s.experiment.params.num_test_obs > 1


(***************************************************************************)
(* Properties of _prepare_test_observations.                               *)
(***************************************************************************)
\* C24: the lists returned hold one counterfactual entry for each held-out
\* image: the counterfactual lists are as long as concept_counts and
\* predicted_classes, and their entry i is derived from test image i
C24_OneCounterfactualPerTestImage ==
    prep_pc = "returned"
        => /\ Len(test_obs.iv_concept_counts) = Len(test_obs.concept_counts)
           /\ Len(test_obs.iv_predicted_classes) = Len(test_obs.predicted_classes)
           /\ \A i \in DOMAIN test_obs.iv_concept_counts :
                 /\ test_obs.iv_concept_counts[i].counts_of
                        = prep_args.test_images[i].image_id
                 /\ test_obs.iv_predicted_classes[i].prediction_of.counterfactual_of
                        = prep_args.test_images[i].image_id


(***************************************************************************)
(* Properties of GlobalPerturber.perturb.                                  *)
(***************************************************************************)
\* entry k of what perturb has yielded behind the original counts is the
\* element-wise maximum of influential_counts and sample k of the sampler
IsCombinedWithSample(k) ==
    LET sample == NextSample(perturb_args.sampler, k - 1)
    IN /\ yielded[k + 1].sample_id = sample.sample_id
       /\ \A c \in DOMAIN perturb_args.influential_counts :
             yielded[k + 1].counts[c]
                 = IF perturb_args.influential_counts[c] >= sample.sample_counts[c]
                   THEN perturb_args.influential_counts[c]
                   ELSE sample.sample_counts[c]

C21_RetryWritesToEnteredDestination ==
    /\ \A k \in 2..Len(attempts) : /\ entered[k - 1] # ""
                                   /\ attempts[k].materialized = entered[k - 1]
                                   /\ attempts[k].written = entered[k - 1]
    /\ write_pc = "done"
          => \/ /\ write_outcome.state = "written"
                /\ attempts[Len(attempts)].exception = "none"
             \/ /\ write_outcome.state = "raised"
                /\ entered[Len(entered)] = ""
                /\ write_outcome.attempt = Len(attempts)
                /\ write_outcome.exception = attempts[Len(attempts)].exception
                /\ write_outcome.exception # "none"

\* the same for the loop of write_petastorm alone
WritePetastormRetriesEntered ==
    write_args.loop = "write_petastorm" => C21_RetryWritesToEnteredDestination


(***************************************************************************)
(* Properties of ToOIV4ObjectNamesTranslator.result_iter.                  *)
(***************************************************************************)
\* the generator waits in in_queue.put() or in in_queue.join()
CoordinatorWaits ==
    \/ /\ coord_pc \in {"put", "put_none"}
       /\ Full(in_queue, InQueueMaxsize(tr_args.num_gpus))
    \/ /\ coord_pc = "join"
       /\ unfinished_tasks > 0

\* process p waits in out_queue.put()
WaitsForOutQueue(p) ==
    /\ processes[p].pc = "put"
    /\ Full(out_queue, OutQueueMaxsize(tr_args.batch_size))

\* process p cannot take a step
ProcessStuck(p) ==
    \/ processes[p].pc = "exited"
    \/ WaitsForOutQueue(p)
    \/ processes[p].pc = "get" /\ in_queue = <<>>

\* C27: in no reachable state does the generator wait in in_queue.put() or
\* in_queue.join() while the processes that have work left wait in
\* out_queue.put() on a full out_queue
C27_NoWaitOnFullOutQueue ==
    ~ /\ CoordinatorWaits
      /\ \E p \in DOMAIN processes : WaitsForOutQueue(p)
      /\ \A p \in DOMAIN processes : ProcessStuck(p)

\* C28: the results yielded are, in this order, the results of batch 1,
\* batch 2, ...; when the generator has ended there is one for each batch
C28_ResultsInBatchOrder ==
    /\ \A i \in DOMAIN yielded_results : yielded_results[i] = i
    /\ coord_pc = "done" => Len(yielded_results) = tr_args.num_batches

====
